---- MODULE Spec2Model ----
(***************************************************************************)
(* safetar: hardened TAR extraction (Guard -> Sandbox -> Streamer).        *)
(*                                                                         *)
(* Member names and link targets are sequences of characters; filesystem   *)
(* paths are sequences of segments (a segment is a sequence of             *)
(* characters).  The filesystem is a function from physical paths (no      *)
(* symlink in any proper prefix) to nodes.  One extractall run is modelled *)
(* step by step: the Guard, the Sandbox, the Streamer's open / write /     *)
(* account / commit, the deferred symlinks and the deferred directory      *)
(* metadata.                                                               *)
(***************************************************************************)
EXTENDS Integers, Sequences, FiniteSets, TLC

\* ---------------------------------------------------------------- bounds
\* Members one run processes at most.
MaxMembers == 2
\* Largest member content, in bytes.
MaxSize == 2
\* Bytes per streamed chunk (the code reads 65536-byte chunks).
ChunkBytes == 1

\* ------------------------------------------------------------ characters
SEP == "/"
BSL == "\\"
CURDIR == <<".">>
PARDIR == <<".", ".">>
\* U+0301 COMBINING ACUTE ACCENT and the precomposed U+00E9.
COMBINING == "^"
EACUTE == "e^"
\* The temporary-file suffix ".safetar_tmp_<pid>_<rand6>", as one character.
TMPSUFFIX == "~"
Letters ==
    {"a", "b", "c", "d", "e", "h", "l", "m", "o", "p", "s", "x", EACUTE}

Last(s) == s[Len(s)]
Front(s) == SubSeq(s, 1, Len(s) - 1)

\* str.replace("\\", "/")
ReplaceBackslash(s) == [i \in 1..Len(s) |-> IF s[i] = BSL THEN SEP ELSE s[i]]

\* unicodedata.normalize("NFC", s): canonical composition.  Of the modelled
\* characters only "e" followed by the combining accent composes.
RECURSIVE NFC(_)
NFC(s) ==
    IF Len(s) < 2 THEN s
    ELSE IF s[1] = "e" /\ s[2] = COMBINING
         THEN <<EACUTE>> \o NFC(SubSeq(s, 3, Len(s)))
         ELSE <<s[1]>> \o NFC(Tail(s))

\* str.split("/")
RECURSIVE SplitFrom(_, _, _)
SplitFrom(s, i, acc) ==
    IF i > Len(s) THEN <<acc>>
    ELSE IF s[i] = SEP THEN <<acc>> \o SplitFrom(s, i + 1, <<>>)
    ELSE SplitFrom(s, i + 1, Append(acc, s[i]))
Split(s) == SplitFrom(s, 1, <<>>)

\* "/".join(parts), and len(str(path)) of an absolute path.
RECURSIVE Join(_)
Join(parts) ==
    IF parts = <<>> THEN <<>>
    ELSE IF Len(parts) = 1 THEN parts[1]
    ELSE parts[1] \o <<SEP>> \o Join(Tail(parts))
PathStrLen(p) == IF p = <<>> THEN 1 ELSE 1 + Len(Join(p))

\* ----------------------------------------------------------------- paths
Root == <<>>
\* The base directory B = "/o", already resolved.
Base == << <<"o">> >>
Parent(p) == IF p = Root THEN Root ELSE Front(p)

\* real == base or str(real).startswith(str(base) + os.sep)
IsInside(p, base) ==
    Len(p) >= Len(base) /\ SubSeq(p, 1, Len(base)) = base

\* pathlib: parent / target.  An absolute target replaces the left side;
\* empty and "." segments are dropped, ".." segments are kept.
PurePath(segs) == SelectSeq(segs, LAMBDA x : x # <<>> /\ x # CURDIR)
IsAbsStr(s) == Len(s) >= 1 /\ s[1] = SEP
JoinPath(parent, s) ==
    IF IsAbsStr(s) THEN PurePath(Split(s)) ELSE parent \o PurePath(Split(s))

\* ------------------------------------------------------------- mode bits
\* stat.S_ISUID, stat.S_ISGID, stat.S_ISVTX: 0o4000, 0o2000, 0o1000.
S_ISUID == 2^11
S_ISGID == 2^10
S_ISVTX == 2^9
\* stat.S_IWUSR, stat.S_IWGRP, stat.S_IWOTH: 0o200, 0o020, 0o002.
S_IWUSR == 2^7
S_IWGRP == 2^4
S_IWOTH == 2^1
\* The bits the kernel keeps of a mode handed to chmod: 0o7777.
S_IMODE(mode) == mode % 2^12

RECURSIVE Or(_, _)
\* a | b, bit by bit.
Or(a, b) ==
    IF a = 0 THEN b
    ELSE IF b = 0 THEN a
    ELSE (IF a % 2 = 1 \/ b % 2 = 1 THEN 1 ELSE 0)
         + 2 * Or(a \div 2, b \div 2)
RECURSIVE AndNot(_, _)
\* a & ~b, bit by bit.
AndNot(a, b) ==
    IF a = 0 THEN 0
    ELSE (IF a % 2 = 1 /\ b % 2 = 0 THEN 1 ELSE 0)
         + 2 * AndNot(a \div 2, b \div 2)

\* sanitise_mode(mode, strip_special_bits=, strip_write_bits=)
sanitise_mode(mode, strip_special_bits, strip_write_bits) ==
    LET special == IF strip_special_bits
                   THEN AndNot(mode, Or(Or(S_ISUID, S_ISGID), S_ISVTX))
                   ELSE mode
    IN IF strip_write_bits
       THEN AndNot(special, Or(Or(S_IWUSR, S_IWGRP), S_IWOTH))
       ELSE special
\* sanitise_ownership(uid, gid, preserve_ownership=): the archive's owner
\* or the owner of the process.
sanitise_ownership(uid, preserve_ownership) ==
    IF preserve_ownership THEN uid ELSE "self"

\* The umask of the process, 0o022, and the modes that open(.., "wb"),
\* mkdir and symlink give what they create.
Umask == 2 * 8 + 2
FileMode == AndNot(6 * 64 + 6 * 8 + 6, Umask)
DirMode == AndNot(7 * 64 + 7 * 8 + 7, Umask)
SymMode == 7 * 64 + 7 * 8 + 7

\* ------------------------------------------------------------ filesystem
\* kind: "dir", "file" or "sym".  via: how the node came to be: "pre"
\* (before the run), "member" (a directory member or a committed regular
\* file), "parent" (a parent directory made on the way), "temp", "link",
\* "symlink".  size/bytes: the content a regular file is meant to hold and
\* what it holds.  meta: the archive's mode/owner/mtime have been applied.
\* mode, owner: the permission bits and the owner of the node.
Node(kind, via, target, size, bytes) ==
    [kind |-> kind, via |-> via, target |-> target, size |-> size,
     bytes |-> bytes, meta |-> FALSE,
     mode |-> IF kind = "file" THEN FileMode
              ELSE IF kind = "dir" THEN DirMode ELSE SymMode,
     owner |-> "self"]
DirNode(via) == Node("dir", via, <<>>, 0, 0)
FileNode(via, size, bytes) == Node("file", via, <<>>, size, bytes)
SymNode(via, target) == Node("sym", via, target, 0, 0)

Put(fs, p, n) == [q \in DOMAIN fs \cup {p} |-> IF q = p THEN n ELSE fs[q]]
Remove(fs, p) == [q \in DOMAIN fs \ {p} |-> fs[q]]

\* Path resolution, component by component (posixpath.realpath; with
\* strict it is the kernel's lookup).  path is the physical path reached so
\* far, rest the components still to walk, seen the symlinks whose target
\* is being resolved.  e = "" on success; loop tells that a symlink loop
\* was met (non-strict only: the looping link is then kept as a plain
\* component).
RECURSIVE JoinReal(_, _, _, _, _)
JoinReal(fs, path, rest, seen, strict) ==
    IF rest = <<>> THEN [p |-> path, e |-> "", loop |-> FALSE]
    ELSE
    LET name == Head(rest)
        tl == Tail(rest)
        newpath == Append(path, name)
    IN
    IF name = <<>> \/ name = CURDIR THEN JoinReal(fs, path, tl, seen, strict)
    ELSE IF name = PARDIR THEN JoinReal(fs, Parent(path), tl, seen, strict)
    ELSE IF newpath \notin DOMAIN fs THEN
        IF strict THEN [p |-> newpath \o tl, e |-> "ENOENT", loop |-> FALSE]
        ELSE JoinReal(fs, newpath, tl, seen, strict)
    ELSE IF fs[newpath].kind # "sym" THEN
        IF strict /\ tl # <<>> /\ fs[newpath].kind # "dir"
        THEN [p |-> newpath \o tl, e |-> "ENOTDIR", loop |-> FALSE]
        ELSE JoinReal(fs, newpath, tl, seen, strict)
    ELSE IF newpath \in seen THEN
        IF strict THEN [p |-> newpath \o tl, e |-> "ELOOP", loop |-> TRUE]
        ELSE [JoinReal(fs, newpath, tl, seen, strict) EXCEPT !.loop = TRUE]
    ELSE
    LET t == fs[newpath].target
        r == JoinReal(fs, IF IsAbsStr(t) THEN Root ELSE path, Split(t),
                      seen \cup {newpath}, strict)
    IN
    IF r.e # "" THEN r
    ELSE LET q == JoinReal(fs, r.p, tl, seen, strict)
         IN [q EXCEPT !.loop = q.loop \/ r.loop]

\* Path.resolve() (strict=False) of an absolute path.
Resolve(fs, p) == JoinReal(fs, Root, p, {}, FALSE)
\* The kernel's lookup of p, following a final symlink (stat).
Lookup(fs, p) == JoinReal(fs, Root, p, {}, TRUE)
\* The kernel's lookup of the entry p itself (lstat): its parent directory
\* followed, its last component not.
Entry(fs, p) ==
    IF p = Root THEN [p |-> Root, e |-> "", loop |-> FALSE]
    ELSE LET r == Lookup(fs, Parent(p))
         IN IF r.e # "" THEN r
            ELSE IF fs[r.p].kind # "dir" THEN [r EXCEPT !.e = "ENOTDIR"]
            ELSE [r EXCEPT !.p = Append(r.p, Last(p))]

Exists(fs, p) == Lookup(fs, p).e = ""
IsDir(fs, p) == LET r == Lookup(fs, p) IN r.e = "" /\ fs[r.p].kind = "dir"
IsSymlink(fs, p) ==
    LET r == Entry(fs, p) IN r.e = "" /\ r.p \in DOMAIN fs /\ fs[r.p].kind = "sym"

\* ------------------------------------------------------------- constants
\* _guard.MAX_PATH and _sandbox.MAX_PATH.
MAX_PATH == 4096
\* verify_symlink_chain's max_follow.
MAX_FOLLOW == 10
\* A run of MAX_PATH ordinary characters, as one character of a name.
LONGRUN == "x+"
NUL == "NUL"
Whitespace == {" "}

\* len(s)
RECURSIVE StrLen(_)
StrLen(s) ==
    IF s = <<>> THEN 0
    ELSE (IF Head(s) = LONGRUN THEN MAX_PATH ELSE 1) + StrLen(Tail(s))
Contains(s, c) == \E i \in 1..Len(s) : s[i] = c

\* TAR type codes (tarfile.REGTYPE ... ); "9" stands for any code the
\* reader does not know.
REGTYPE == "0"
AREGTYPE == "NUL"
LNKTYPE == "1"
SYMTYPE == "2"
CHRTYPE == "3"
BLKTYPE == "4"
DIRTYPE == "5"
FIFOTYPE == "6"
CONTTYPE == "7"
GNUTYPE_SPARSE == "S"
UNKNOWNTYPE == "9"

REGULAR_TYPES == {REGTYPE, AREGTYPE, CONTTYPE}
DIR_TYPE == {DIRTYPE}
SYMLINK_TYPE == {SYMTYPE}
HARDLINK_TYPE == {LNKTYPE}
FORBIDDEN_TYPES == {CHRTYPE, BLKTYPE, FIFOTYPE}

\* Error kinds: the SafetarError leaves, and the errors outside it.
UNSAFE_ENTRY == "UNSAFE_ENTRY"
UNSAFE_ENTRY_TYPE == "UNSAFE_ENTRY_TYPE"
FILE_SIZE_EXCEEDED == "FILE_SIZE_EXCEEDED"
TOTAL_SIZE_EXCEEDED == "TOTAL_SIZE_EXCEEDED"
COMPRESSION_RATIO_EXCEEDED == "COMPRESSION_RATIO_EXCEEDED"
MALFORMED_ARCHIVE == "MALFORMED_ARCHIVE"
SafetarErrors ==
    {UNSAFE_ENTRY, UNSAFE_ENTRY_TYPE, FILE_SIZE_EXCEEDED, TOTAL_SIZE_EXCEEDED,
     COMPRESSION_RATIO_EXCEEDED, MALFORMED_ARCHIVE, "FILE_COUNT_EXCEEDED",
     "NESTING_DEPTH_EXCEEDED"}
OSERROR == "OSError"
KEYERROR == "KeyError"
RUNTIMEERROR == "RuntimeError"

\* ----------------------------------------------------------------- Guard
\* A member header: name (effective name), type, linkname, size, sparse
\* (the reader's sparse attribute), pax_sparse (a GNU.sparse.major or
\* GNU.sparse.size PAX header), has_pax_path / pax_path (a PAX path header).
IsSparse(m) == m.sparse \/ m.type = GNUTYPE_SPARSE \/ m.pax_sparse

isdir(m) == m.type = DIRTYPE
islnk(m) == m.type = LNKTYPE
issym(m) == m.type = SYMTYPE

Ok(v) == [e |-> "", v |-> v]
Err(kind) == [e |-> kind, v |-> <<>>]

\* validate_entry_type: the disposition, or the error raised.
validate_entry_type(m, symlink_policy, hardlink_policy, sparse_policy) ==
    IF IsSparse(m) THEN
        IF sparse_policy = "reject" THEN Err(UNSAFE_ENTRY_TYPE)
        ELSE Ok("extract")
    ELSE IF m.type \in REGULAR_TYPES THEN Ok("extract")
    ELSE IF m.type \in DIR_TYPE THEN Ok("extract")
    ELSE IF m.type \in SYMLINK_TYPE THEN
        CASE symlink_policy = "reject" -> Err(UNSAFE_ENTRY)
          [] symlink_policy = "ignore" -> Ok("skip")
          [] symlink_policy = "resolve_internal" -> Ok("defer_symlink")
    ELSE IF m.type \in HARDLINK_TYPE THEN
        CASE hardlink_policy = "reject" -> Err(UNSAFE_ENTRY)
          [] hardlink_policy = "internal" -> Ok("extract")
    ELSE IF m.type \in FORBIDDEN_TYPES THEN Err(UNSAFE_ENTRY_TYPE)
    ELSE Err(UNSAFE_ENTRY_TYPE)

\* validate_filename
validate_filename(m) ==
    IF m.name = <<>> \/ \A i \in 1..Len(m.name) : m.name[i] \in Whitespace
    THEN Err(UNSAFE_ENTRY)
    ELSE IF Contains(m.name, NUL) THEN Err(UNSAFE_ENTRY)
    ELSE IF StrLen(m.name) > MAX_PATH THEN Err(UNSAFE_ENTRY)
    ELSE Ok(m.name)

\* validate_pax_path: the error raised, if any (the path itself is
\* m.pax_path when m.has_pax_path).
validate_pax_path(m) ==
    IF ~m.has_pax_path THEN Ok(<<>>)
    ELSE IF Contains(m.pax_path, NUL) THEN Err(UNSAFE_ENTRY)
    ELSE IF StrLen(m.pax_path) > MAX_PATH THEN Err(UNSAFE_ENTRY)
    ELSE Ok(m.pax_path)

\* --------------------------------------------------------------- Sandbox
\* The cleaned segments of a member name: split on "/", empties and lone
\* dots dropped.
CleanParts(norm) == SelectSeq(Split(norm), LAMBDA x : x # <<>> /\ x # CURDIR)
\* The ".." segments of a name pass unnoticed.
NoDotDotCheck(norm) == FALSE
HasDotDot(norm) == \E i \in 1..Len(Split(norm)) : Split(norm)[i] = PARDIR
\* No name counts as absolute.
NoAbsoluteCheck(norm) == FALSE
IsAbsolute(norm) ==
    \/ IsAbsStr(norm)
    \/ Len(norm) >= 3 /\ norm[2] = ":" /\ norm[3] = SEP /\ norm[1] \in Letters

\* resolve_member_path(base, member_name): the destination path, or the
\* error raised.  loopRaises: this build's Path.resolve() raises
\* RuntimeError on a symlink loop (Python < 3.13) instead of returning.
resolve_member_path(fs, base, member_name, loopRaises) ==
    LET norm == ReplaceBackslash(NFC(member_name))
        clean_parts == CleanParts(norm)
        joined == Join(clean_parts)
        resolved == base \o clean_parts
        r == Resolve(fs, resolved)
    IN
    IF IsAbsolute(norm) THEN Err(UNSAFE_ENTRY)
    ELSE IF HasDotDot(norm) THEN Err(UNSAFE_ENTRY)
    ELSE IF clean_parts = <<>> THEN Err(UNSAFE_ENTRY)
    ELSE IF Contains(joined, NUL) THEN Err(UNSAFE_ENTRY)
    ELSE IF 1 + StrLen(Join(resolved)) > MAX_PATH THEN Err(UNSAFE_ENTRY)
    ELSE IF r.loop /\ loopRaises THEN Err(RUNTIMEERROR)
    ELSE IF ~IsInside(r.p, base) THEN Err(UNSAFE_ENTRY)
    ELSE Ok(resolved)

\* The chain walk of verify_symlink_chain: "" when the chain ends inside
\* base within n hops.
RECURSIVE FollowChain(_, _, _, _, _)
FollowChain(fs, base, current, n, loopRaises) ==
    IF n = 0 THEN UNSAFE_ENTRY
    ELSE IF ~IsSymlink(fs, current) THEN ""
    ELSE
    LET link_target == fs[Entry(fs, current).p].target
        r == Resolve(fs, JoinPath(Parent(current), link_target))
    IN
    IF r.loop /\ loopRaises THEN RUNTIMEERROR
    ELSE IF ~IsInside(r.p, base) THEN UNSAFE_ENTRY
    ELSE FollowChain(fs, base, r.p, n - 1, loopRaises)

\* verify_symlink_chain without the containment check of the immediate
\* target: only the further links are looked at.
verify_symlink_chain_unchecked(fs, base, symlink_path, symlink_target, loopRaises) ==
    LET r == Resolve(fs, JoinPath(Parent(symlink_path), symlink_target))
    IN
    IF r.loop /\ loopRaises THEN RUNTIMEERROR
    ELSE FollowChain(fs, base, r.p, MAX_FOLLOW, loopRaises)

\* verify_symlink_chain(base_dir, symlink_path, symlink_target): "" or the
\* error raised.
verify_symlink_chain(fs, base, symlink_path, symlink_target, loopRaises) ==
    LET r == Resolve(fs, JoinPath(Parent(symlink_path), symlink_target))
    IN
    IF r.loop /\ loopRaises THEN RUNTIMEERROR
    ELSE IF ~IsInside(r.p, base) THEN UNSAFE_ENTRY
    ELSE FollowChain(fs, base, r.p, MAX_FOLLOW, loopRaises)

\* verify_hardlink_target without the look into ExtractedSet.
verify_hardlink_target_on_disk(fs, base, link_target, extracted, loopRaises) ==
    LET t == resolve_member_path(fs, base, link_target, loopRaises)
    IN
    IF t.e # "" THEN t
    ELSE IF ~Exists(fs, t.v) THEN Err(UNSAFE_ENTRY)
    ELSE t

\* verify_hardlink_target: the resolved target, or the error raised.
verify_hardlink_target(fs, base, link_target, extracted, loopRaises) ==
    LET t == resolve_member_path(fs, base, link_target, loopRaises)
    IN
    IF t.e # "" THEN t
    ELSE IF t.v \notin extracted THEN Err(UNSAFE_ENTRY)
    ELSE IF ~Exists(fs, t.v) THEN Err(UNSAFE_ENTRY)
    ELSE t

\* ------------------------------------------------- filesystem operations
FsOk(fs) == [e |-> "", fs |-> fs]
FsErr(fs) == [e |-> OSERROR, fs |-> fs]

\* Path.mkdir(parents=True, exist_ok=True)
RECURSIVE Mkdirs(_, _, _)
Mkdirs(fs, p, via) ==
    IF p = Root THEN FsOk(fs)
    ELSE
    LET par == Lookup(fs, Parent(p))
        loc == Append(par.p, Last(p))
    IN
    IF par.e = "ENOENT" THEN
        \* FileNotFoundError: make the parents, then this directory.
        LET up == Mkdirs(fs, Parent(p), "parent")
        IN IF up.e # "" THEN up
           ELSE LET par2 == Lookup(up.fs, Parent(p))
                IN FsOk(Put(up.fs, Append(par2.p, Last(p)), DirNode(via)))
    ELSE IF par.e # "" \/ fs[par.p].kind # "dir" THEN FsErr(fs)
    ELSE IF loc \notin DOMAIN fs THEN FsOk(Put(fs, loc, DirNode(via)))
    ELSE IF IsDir(fs, p) THEN FsOk(fs)
    ELSE FsErr(fs)

\* open(p, "wb") / Path.touch(): an empty file at p (truncating).
CreateFile(fs, p, node) ==
    LET r == Entry(fs, p) IN
    IF r.e # "" THEN FsErr(fs)
    ELSE IF r.p \in DOMAIN fs /\ fs[r.p].kind = "dir" THEN FsErr(fs)
    ELSE IF r.p \in DOMAIN fs /\ fs[r.p].kind = "sym" THEN
        \* open follows a final symlink
        LET t == Resolve(fs, p) IN
        IF t.loop \/ (t.p \in DOMAIN fs /\ fs[t.p].kind = "dir")
           \/ ~IsDir(fs, Parent(t.p))
        THEN FsErr(fs) ELSE FsOk(Put(fs, t.p, node))
    ELSE FsOk(Put(fs, r.p, node))

\* The file is left where it is.
UnlinkNothing(fs, p) == fs

\* The cleanup removing the destination along with the temporary file.
UnlinkBoth(fs, p) ==
    LET r == Entry(fs, p)
        d == Append(Front(r.p), Front(Last(r.p)))
        gone == {q \in {r.p, d} : q \in DOMAIN fs /\ fs[q].kind # "dir"}
    IN
    IF r.e = "" /\ r.p # Root /\ Last(r.p) # <<>>
    THEN [q \in DOMAIN fs \ gone |-> fs[q]] ELSE fs

\* Path.unlink(missing_ok=True), OSError suppressed.
Unlink(fs, p) ==
    LET r == Entry(fs, p) IN
    IF r.e = "" /\ r.p \in DOMAIN fs /\ fs[r.p].kind # "dir"
    THEN Remove(fs, r.p) ELSE fs

\* Path.rename(dst): dst is replaced unless it is a directory.
Rename(fs, src, dst, via) ==
    LET s == Entry(fs, src)
        d == Entry(fs, dst)
    IN
    IF s.e # "" \/ d.e # "" \/ s.p \notin DOMAIN fs THEN FsErr(fs)
    ELSE IF d.p \in DOMAIN fs /\ fs[d.p].kind = "dir" THEN FsErr(fs)
    ELSE FsOk(Put(Remove(fs, s.p), d.p, [fs[s.p] EXCEPT !.via = via]))

\* os.link(src, dst): a second name for src's file.
Link(fs, src, dst) ==
    LET s == Entry(fs, src)
        d == Entry(fs, dst)
    IN
    IF s.e # "" \/ d.e # "" \/ s.p \notin DOMAIN fs THEN FsErr(fs)
    ELSE IF fs[s.p].kind = "dir" \/ d.p \in DOMAIN fs THEN FsErr(fs)
    ELSE FsOk(Put(fs, d.p, [fs[s.p] EXCEPT !.via = "link"]))

\* os.symlink handed the resolved location of the target.
SymlinkResolved(fs, target, p) ==
    LET d == Entry(fs, p)
        t == Resolve(fs, JoinPath(Parent(p), target))
    IN
    IF d.e # "" \/ d.p \in DOMAIN fs THEN FsErr(fs)
    ELSE FsOk(Put(fs, d.p, SymNode("symlink", <<SEP>> \o Join(t.p))))

\* os.symlink(target, p)
Symlink(fs, target, p) ==
    LET d == Entry(fs, p) IN
    IF d.e # "" \/ d.p \in DOMAIN fs THEN FsErr(fs)
    ELSE FsOk(Put(fs, d.p, SymNode("symlink", target)))

\* os.chown(p, uid, gid), OSError suppressed: the call fails and leaves
\* the file alone, or the owner changes and the kernel keeps or clears the
\* setuid and setgid bits.
ChownOutcomes == {"fails", "keeps", "clears"}
Chown(fs, p, uid, outcome) ==
    LET r == Lookup(fs, p) IN
    IF r.e # "" \/ outcome = "fails" THEN fs
    ELSE [fs EXCEPT ![r.p].owner = uid,
                    ![r.p].mode = IF outcome = "clears"
                                  THEN AndNot(@, Or(S_ISUID, S_ISGID))
                                  ELSE @]
\* os.chmod(p, mode), OSError suppressed.
Chmod(fs, p, mode) ==
    LET r == Lookup(fs, p) IN
    IF r.e = "" THEN [fs EXCEPT ![r.p].mode = S_IMODE(mode)] ELSE fs
\* os.utime(p, (mtime, mtime)), OSError suppressed.
Utime(fs, p) ==
    LET r == Lookup(fs, p) IN
    IF r.e = "" THEN [fs EXCEPT ![r.p].meta = TRUE] ELSE fs

\* The fields of a member that _apply_metadata reads.
Meta(info) == [mode |-> info.mode, uid |-> info.uid]

\* _apply_metadata with the mode set before the owner.
ApplyMetaModeFirst(fs, p, info, c, chown) ==
    LET moded == Chmod(fs, p, sanitise_mode(info.mode, c.strip_special_bits,
                                            c.strip_write_bits))
        owned == IF c.preserve_ownership
                 THEN Chown(moded, p, sanitise_ownership(info.uid, TRUE),
                            chown)
                 ELSE moded
    IN Utime(owned, p)

\* _apply_metadata(info, dest_path): os.chown when ownership is preserved,
\* then os.chmod of the sanitised mode, then os.utime.
ApplyMeta(fs, p, info, c, chown) ==
    LET owned == IF c.preserve_ownership
                 THEN Chown(fs, p, sanitise_ownership(info.uid, TRUE), chown)
                 ELSE fs
        moded == Chmod(owned, p,
                       sanitise_mode(info.mode, c.strip_special_bits,
                                     c.strip_write_bits))
    IN Utime(moded, p)

\* ---------------------------------------------------------------- Streamer
\* The member is written in place.
InPlace(dest_path) == dest_path

\* temp_path = dest_path.with_name(dest_path.name + suffix)
TempPath(dest_path) == Append(Front(dest_path), Append(Last(dest_path), TMPSUFFIX))

\* What tf.extractfile(info) gives for a member that reaches the Streamer:
\* "none" (no content stream), "stream" (the member's bytes) or "link"
\* (the reader looks the link target up in the archive: its bytes, or
\* KeyError when the archive has no such member).
ExtractFile(m) ==
    IF m.type \in {REGTYPE, AREGTYPE, CONTTYPE, GNUTYPE_SPARSE, UNKNOWNTYPE}
    THEN "stream"
    ELSE IF islnk(m) \/ issym(m) THEN "link"
    ELSE "none"

\* account with the ratio check alone.
MonitorErrorRatioOnly(c, member, total) ==
    IF c.archive_size > 0 /\ total > c.max_ratio * c.archive_size
    THEN COMPRESSION_RATIO_EXCEEDED
    ELSE ""

\* account checking the grand total before the member's bytes.
MonitorErrorTotalFirst(c, member, total) ==
    IF total > c.max_total_size THEN TOTAL_SIZE_EXCEEDED
    ELSE IF member > c.max_file_size THEN FILE_SIZE_EXCEEDED
    ELSE IF c.archive_size > 0 /\ total > c.max_ratio * c.archive_size
         THEN COMPRESSION_RATIO_EXCEEDED
    ELSE ""

\* account raising FileSizeExceededError already at the limit.
MonitorErrorAtFileLimit(c, member, total) ==
    IF member >= c.max_file_size THEN FILE_SIZE_EXCEEDED
    ELSE IF total > c.max_total_size THEN TOTAL_SIZE_EXCEEDED
    ELSE IF c.archive_size > 0 /\ total > c.max_ratio * c.archive_size
         THEN COMPRESSION_RATIO_EXCEEDED
    ELSE ""

\* account without the check of the grand total.
MonitorErrorNoTotal(c, member, total) ==
    IF member > c.max_file_size THEN FILE_SIZE_EXCEEDED
    ELSE IF c.archive_size > 0 /\ total > c.max_ratio * c.archive_size
         THEN COMPRESSION_RATIO_EXCEEDED
    ELSE ""

\* account with the ratio taken per member.
MonitorErrorMemberRatio(c, member, total) ==
    IF member > c.max_file_size THEN FILE_SIZE_EXCEEDED
    ELSE IF total > c.max_total_size THEN TOTAL_SIZE_EXCEEDED
    ELSE IF c.archive_size > 0 /\ member > c.max_ratio * c.archive_size
         THEN COMPRESSION_RATIO_EXCEEDED
    ELSE ""

\* ExtractionMonitor.account(n), after the counters have been advanced: the
\* error raised, or "".  The ratio is a float division in the code; the
\* modelled limits are whole numbers.
MonitorError(c, member, total) ==
    IF member > c.max_file_size THEN FILE_SIZE_EXCEEDED
    ELSE IF total > c.max_total_size THEN TOTAL_SIZE_EXCEEDED
    ELSE IF c.archive_size > 0 /\ total > c.max_ratio * c.archive_size
         THEN COMPRESSION_RATIO_EXCEEDED
    ELSE ""

\* ----------------------------------------------------------------- inputs
Member(name, type, linkname, size, sparse, pax_sparse) ==
    [name |-> name, type |-> type, linkname |-> linkname, size |-> size,
     sparse |-> sparse, pax_sparse |-> pax_sparse,
     has_pax_path |-> FALSE, pax_path |-> <<>>,
     mode |-> 6 * 64 + 4 * 8 + 4, uid |-> "archive"]
NoMember == Member(<<>>, "none", <<>>, 0, FALSE, FALSE)

\* Names inside the base directory.
PlainNames == {<<"a">>, <<"d", "/", "a">>}
\* Names with a ".." segment, once the backslashes are slashes.
DotDotNames ==
    {<<".", ".", "/", "e">>, <<"d", "/", ".", ".", "/", "a">>,
     <<"d", BSL, ".", ".", BSL, "a">>}
\* Absolute names.
AbsoluteNames ==
    {<<"/", "e">>, <<BSL, "e">>, <<"c", ":", "/", "e">>, <<"c", ":", BSL, "e">>}
\* Other names: refused by filename sanity or path resolution, or cleaned.
OddNames == {<<>>, <<"a", NUL>>, <<LONGRUN>>, <<".">>, <<".", "/", "a">>}

AllTypes ==
    {REGTYPE, AREGTYPE, CONTTYPE, DIRTYPE, SYMTYPE, LNKTYPE, CHRTYPE, BLKTYPE,
     FIFOTYPE, GNUTYPE_SPARSE, UNKNOWNTYPE}

\* The member headers of the archive: regular files of every size,
\* directories, symlinks, hardlinks, members whose PAX path overrides a safe
\* ustar name, and some names that lead out of the base directory.
Catalogue ==
    {Member(n, REGTYPE, <<>>, z, FALSE, FALSE) : n \in PlainNames, z \in 0..MaxSize}
    \cup
    {Member(n, REGTYPE, <<>>, 1, FALSE, FALSE) :
        n \in {<<".", ".", "/", "e">>, <<"/", "e">>, <<".", "/", "a">>}}
    \cup
    {Member(n, DIRTYPE, <<>>, 0, FALSE, FALSE) : n \in {<<"d">>, <<"a">>}}
    \cup
    {Member(n, SYMTYPE, t, 0, FALSE, FALSE) :
        n \in {<<"l">>, <<"d", "/", "l">>},
        t \in {<<"a">>, <<".">>, <<".", ".", "/", "e">>, <<"/", "e">>}}
    \cup
    {Member(n, LNKTYPE, t, 0, FALSE, FALSE) :
        n \in {<<"h">>, <<"d", "/", "h">>},
        t \in {<<"a">>, <<"b">>, <<"d">>, <<".", ".", "/", "e">>}}
    \cup
    \* a hardlink with a PAX sparse marker
    {Member(<<"h">>, LNKTYPE, <<"a">>, 0, FALSE, TRUE)}
    \cup
    {[Member(<<"a">>, REGTYPE, <<>>, 1, FALSE, FALSE)
        EXCEPT !.has_pax_path = TRUE, !.pax_path = pp] :
        pp \in {<<"a">>, <<"b">>, <<".", ".", "/", "e">>, <<"/", "e">>, <<"b", NUL>>}}

\* PAX path overrides with a ".." segment, absolute, with a NUL, longer
\* than MAX_PATH.
UnsafeOverrides ==
    {<<".", ".", "/", "e">>, <<"/", "e">>, <<"b", NUL>>, <<LONGRUN, "a">>}

\* An archive of every type code: under a plain name, bare and with either
\* sparse marker, under every unsafe name, bare and with a PAX sparse
\* marker, and under a plain name that an unsafe PAX path overrides.
TypeCatalogue ==
    {Member(<<"a">>, t, <<"a">>, 1, sp[1], sp[2]) :
        t \in AllTypes,
        sp \in {<<FALSE, FALSE>>, <<TRUE, FALSE>>, <<FALSE, TRUE>>}}
    \cup
    {Member(n, t, <<"a">>, 1, FALSE, ps) :
        n \in DotDotNames \cup AbsoluteNames, t \in AllTypes, ps \in BOOLEAN}
    \cup
    {Member(n, REGTYPE, <<>>, 1, FALSE, FALSE) : n \in OddNames}
    \cup
    {[Member(<<"a">>, t, <<"a">>, 1, FALSE, FALSE)
        EXCEPT !.has_pax_path = TRUE, !.pax_path = pp] :
        t \in AllTypes, pp \in UnsafeOverrides}
\* Members one run over that archive processes at most.
MaxTypeMembers == 2

\* An archive of symlinks, with one regular file and one directory.
LinkCatalogue ==
    {Member(n, SYMTYPE, t, 0, FALSE, FALSE) :
        n \in {<<"l">>, <<"m">>, <<"l", "/", "e">>},
        t \in {<<"a">>, <<".">>, <<"m", "/", ".", ".">>, <<"o">>}}
    \cup {Member(<<"a">>, REGTYPE, <<>>, 1, FALSE, FALSE),
          Member(<<"d">>, DIRTYPE, <<>>, 0, FALSE, FALSE)}
\* Members one run over that archive processes at most.
MaxLinkMembers == 3

\* hashlib.sha256(...).hexdigest() of an archive whose bytes hash to the
\* repeated digit d, and compute_archive_hash: its first 16 characters.
HexDigits ==
    {"0", "1", "2", "3", "4", "5", "6", "7", "8", "9",
     "a", "b", "c", "d", "e", "f"}
hexdigest(d) == [i \in 1..64 |-> d]
\* The whole digest is kept.
compute_archive_hash_whole(digest) == digest
compute_archive_hash(digest) == SubSeq(digest, 1, 16)

SymlinkPolicies == {"reject", "ignore", "resolve_internal"}
HardlinkPolicies == {"reject", "internal"}
SparsePolicies == {"reject", "materialise"}

\* The bytes of the input: front_size bytes lie before the position the
\* input is handed over at and hold an archive of front_members members;
\* size bytes follow from that position on.
Input(front_members, front_size, size) ==
    [front_members |-> front_members, front_size |-> front_size,
     size |-> size]

Config(sp, hp, xp, mf, mt, mr, as) ==
    [symlink_policy |-> sp, hardlink_policy |-> hp, sparse_policy |-> xp,
     max_file_size |-> mf, max_total_size |-> mt, max_ratio |-> mr,
     archive_size |-> as, max_files |-> MaxMembers, on_security_event |-> TRUE,
     callback |-> "returns", mode |-> <<"r", ":", "*">>, file |-> "path",
     archive_hash |-> compute_archive_hash(hexdigest("0")),
     strip_special_bits |-> TRUE, strip_write_bits |-> FALSE,
     preserve_ownership |-> FALSE, input |-> Input(0, 0, as)]

\* Every policy combination, under limits no member reaches.
PolicyConfigs ==
    {Config(sp, hp, xp, MaxSize, MaxMembers * MaxSize, 1, 0) :
        sp \in SymlinkPolicies, hp \in HardlinkPolicies, xp \in SparsePolicies}
\* The most permissive policies, under limits no member reaches.
Permissive ==
    Config("resolve_internal", "internal", "materialise",
           MaxSize, MaxMembers * MaxSize, 1, 0)
\* Limits that members reach, under one policy combination.
LimitConfigs ==
    {Config("reject", "internal", "materialise", mf, mt, 1, as) :
        mf \in {MaxSize - 1, MaxSize},
        mt \in {MaxSize, MaxMembers * MaxSize},
        as \in {0, MaxSize}}

\* What the destination holds before the run: nothing (the base directory
\* is yet to be made), an older file a, a symlink d leading out of the
\* base directory, or an older directory d.
BaseOnly == (Root :> DirNode("pre")) @@ (Base :> DirNode("pre"))
NoBase == (Root :> DirNode("pre"))
OldFile == Put(BaseOnly, Append(Base, <<"a">>), FileNode("pre", 1, 1))
OldLink == Put(BaseOnly, Append(Base, <<"d">>), SymNode("pre", <<".", ".">>))
OldDir == Put(BaseOnly, Append(Base, <<"d">>), DirNode("pre"))

\* ------------------------------------------------------------------ state
VARIABLES
    fs,                 \* the filesystem
    cfg,                \* the handle's configuration
    archive,            \* the member headers the archive holds
    budget,             \* members the run may still reach
    pc,                 \* where extractall stands
    cur,                \* info: the member header reached last
    disp,               \* the Guard's disposition of cur
    dest,               \* dest_path of the member being streamed
    remaining,          \* bytes the member's stream has yet to yield
    chunk,              \* len(chunk) of the chunk written last
    member_bytes,       \* ExtractionMonitor._member_bytes
    total_bytes,        \* ExtractionMonitor._total_bytes
    deferred_symlinks,  \* [(dest_path, linkname)]
    deferred_dirs,      \* [(info, dest_path)] of the directory members
    extracted_paths,    \* ExtractedSet
    err,                \* the error the call raised, "" if none
    count,              \* pre_scan_file_count's count of headers read
    events,             \* the SecurityEvents handed to on_security_event
    resources,          \* what the handle holds open, what it has released
    written,            \* the members the Streamer has committed, and where
    infos,              \* the members extractall has yet to iterate over
    other               \* a second handle of the process, while the first runs

vars ==
    <<fs, cfg, archive, budget, pc, cur, disp, dest, remaining, chunk,
      member_bytes, total_bytes, deferred_symlinks, deferred_dirs,
      extracted_paths, err, count, events, resources, written, infos,
      other>>

\* The handle holds its own file handle on the archive and the reader
\* opened on it, acquired in this order.
Resources(held, released) == [held |-> held, released |-> released]
Opened == Resources(<<"fileobj", "tf">>, <<>>)

\* infos of extractall: every member of the archive (members is None), or
\* the members selected that are yet to be iterated over.
Infos(all, list) == [all |-> all, list |-> list]
Every == Infos(TRUE, <<>>)

\* The process holds no second handle.
NoHandle == [pc |-> "none"]
Alone == other = NoHandle

\* The handle is open, extractall has not been called.
Idle ==
    /\ pc = "idle"
    /\ cur = NoMember
    /\ disp = ""
    /\ dest = <<>>
    /\ remaining = 0
    /\ chunk = 0
    /\ member_bytes = 0
    /\ total_bytes = 0
    /\ deferred_symlinks = <<>>
    /\ deferred_dirs = <<>>
    /\ extracted_paths = {}
    /\ err = ""
    /\ count = 0
    /\ events = <<>>
    /\ resources = Opened
    /\ written = <<>>
    /\ infos = Every

Init ==
    /\ \/ cfg \in PolicyConfigs /\ fs = NoBase
       \/ cfg = Permissive /\ fs \in {OldFile, OldLink, OldDir}
       \/ cfg \in LimitConfigs /\ fs = OldFile
    /\ archive = Catalogue
    /\ budget = MaxMembers
    /\ Idle
    /\ Alone

InitTypes ==
    /\ cfg \in PolicyConfigs
    /\ fs = NoBase
    /\ archive = TypeCatalogue
    /\ budget = MaxTypeMembers
    /\ Idle
    /\ Alone

InitLinks ==
    /\ cfg = Permissive
    /\ fs = NoBase
    /\ archive = LinkCatalogue
    /\ budget = MaxLinkMembers
    /\ Idle
    /\ Alone

\* _event_type_for(info).
event_type_for(m) ==
    IF issym(m) THEN "symlink_violation"
    ELSE IF islnk(m) THEN "hardlink_violation"
    ELSE IF isdir(m) THEN "directory_violation"
    ELSE "security_violation"

SecurityEvent(event_type, archive_hash, timestamp) ==
    [event_type |-> event_type, archive_hash |-> archive_hash,
     timestamp |-> timestamp]

\* A call of the handle's callback: its outcome is the callback's way (it
\* returns, raises an Exception, or raises a BaseException that is no
\* Exception: SystemExit, KeyboardInterrupt), now is time.time() at the
\* call.
Clock == {1}
Callbacks == [outcome : {cfg.callback}, now : Clock]
BASEEXCEPTION == "BaseException"

\* _fire_event within the except clause of _extract_one: a SafetarError
\* that leaves _extract_one_inner is reported to the callback, if there is
\* one, before it is raised again; any other exception passes unreported.
fire_event(c, evs, m, kind, cb) ==
    IF kind \in SafetarErrors /\ c.on_security_event
    THEN Append(evs, SecurityEvent(event_type_for(m), c.archive_hash, cb.now))
    ELSE evs

\* The exception that log.exception swallows is the one the caller gets.
extract_one_error_masked(c, kind, cb) ==
    IF kind \in SafetarErrors /\ c.on_security_event
       /\ cb.outcome \in {"raises", "exits"}
    THEN BASEEXCEPTION ELSE kind

\* What leaves _extract_one when kind left _extract_one_inner: kind
\* itself, unless the callback raised something that "except Exception"
\* in _fire_event does not catch.
extract_one_error(c, kind, cb) ==
    IF kind \in SafetarErrors /\ c.on_security_event /\ cb.outcome = "exits"
    THEN BASEEXCEPTION ELSE kind

\* The error is noted and the run goes on with the next member.
RaiseAndGoOn(kind) ==
    /\ pc' = "loop"
    /\ err' = kind

\* An error leaves extractall: the run is over.
Raise(kind) ==
    /\ pc' = "failed"
    /\ err' = kind

\* kind leaves _extract_one_inner for member m: the event, then the error.
RaiseMember(m, cb, kind) ==
    /\ events' = fire_event(cfg, events, m, kind, cb)
    /\ Raise(extract_one_error(cfg, kind, cb))

\* What the caller names a member by: its TarInfo, or its name, which the
\* archive holds (found) or not.
Selector(info, byname, found) ==
    [info |-> info, byname |-> byname, found |-> found]
\* The members argument: None, or a list of selectors.
Members(list) == [given |-> TRUE, list |-> list]
None == [given |-> FALSE, list |-> <<>>]

\* TarFile.getmember(name) for a selector given by name: the member, or
\* KeyError; a TarInfo is taken as it is.
getmember(m) ==
    IF m.byname /\ ~m.found THEN Err(KEYERROR) ELSE [e |-> "", v |-> m.info]

\* extractall going on with the monitor, the two queues and ExtractedSet
\* that the call before it left.
extractallKeeps(members) ==
    /\ pc = "idle"
    /\ LET mk == Mkdirs(fs, Base, "parent")
           missing == \E i \in 1..Len(members.list) :
                         getmember(members.list[i]).e # ""
       IN
       /\ fs' = mk.fs
       /\ IF mk.e # "" THEN Raise(OSERROR) /\ infos' = infos
          ELSE IF members.given /\ missing THEN
               Raise(KEYERROR) /\ infos' = infos
          ELSE /\ pc' = "loop" /\ err' = ""
               /\ infos' = IF members.given
                           THEN Infos(FALSE, [i \in 1..Len(members.list) |->
                                                getmember(members.list[i]).v])
                           ELSE Every
    /\ UNCHANGED <<member_bytes, total_bytes, deferred_symlinks,
                   deferred_dirs, extracted_paths>>
    /\ written' = <<>>
    /\ UNCHANGED <<cfg, archive, other, count, resources, events, budget, cur, disp, dest, remaining, chunk>>

\* extractall, up to the member loop: the base directory is made and the
\* monitor, the two queues and ExtractedSet are created.
extractall(members) ==
    /\ pc = "idle"
    /\ LET mk == Mkdirs(fs, Base, "parent")
           missing == \E i \in 1..Len(members.list) :
                         getmember(members.list[i]).e # ""
       IN
       /\ fs' = mk.fs
       /\ IF mk.e # "" THEN Raise(OSERROR) /\ infos' = infos
          ELSE IF members.given /\ missing THEN
               Raise(KEYERROR) /\ infos' = infos
          ELSE /\ pc' = "loop" /\ err' = ""
               /\ infos' = IF members.given
                           THEN Infos(FALSE, [i \in 1..Len(members.list) |->
                                                getmember(members.list[i]).v])
                           ELSE Every
    /\ member_bytes' = 0
    /\ total_bytes' = 0
    /\ deferred_symlinks' = <<>>
    /\ deferred_dirs' = <<>>
    /\ extracted_paths' = {}
    /\ written' = <<>>
    /\ UNCHANGED <<cfg, archive, other, count, resources, events, budget, cur, disp, dest, remaining, chunk>>

\* extractall(path): every member of the archive.
ExtractAll == extractall(None)

\* extract(member, path) handing the whole archive on.
ExtractWhole(member) ==
    /\ pc = "idle"
    /\ extractall(None)

\* extract(member, path): a name is looked up, then extractall is called
\* with the one member selected.
Extract(member) ==
    /\ pc = "idle"
    /\ LET info == getmember(member) IN
       IF info.e # "" THEN
            /\ Raise(info.e)
            /\ UNCHANGED <<fs, cfg, archive, other, infos, written, count, resources,
                           events, budget, cur, disp, dest, remaining, chunk,
                           member_bytes, total_bytes, deferred_symlinks,
                           deferred_dirs, extracted_paths>>
       ELSE extractall(Members(<<Selector(info.v, FALSE, TRUE)>>))

\* The Guard phase of _extract_one_inner: the disposition, or the error.
Guard(m, c) ==
    LET t == validate_entry_type(m, c.symlink_policy, c.hardlink_policy,
                                 c.sparse_policy)
        f == validate_filename(m)
        x == validate_pax_path(m)
    IN
    IF t.e # "" THEN t
    ELSE IF t.v = "skip" THEN t
    ELSE IF f.e # "" THEN Err(f.e)
    ELSE IF x.e # "" THEN Err(x.e)
    ELSE t

\* The destination is taken as named, unresolved.
SandboxUnchecked(f, m, loopRaises) ==
    Ok(Base \o CleanParts(ReplaceBackslash(NFC(m.name))))

\* The effective name alone is resolved.
SandboxNameOnly(f, m, loopRaises) ==
    resolve_member_path(f, Base, m.name, loopRaises)

\* The path resolution of _extract_one_inner: dest_path, or the error.
Sandbox(f, m, loopRaises) ==
    LET d == resolve_member_path(f, Base, m.name, loopRaises)
        px == IF m.has_pax_path /\ m.pax_path # m.name
              THEN resolve_member_path(f, Base, m.pax_path, loopRaises)
              ELSE Ok(<<>>)
    IN
    IF d.e # "" THEN d
    ELSE IF px.e # "" THEN px
    ELSE d

\* _extract_one making the parent directory of a hardlink before the
\* target is verified.
ExtractOneParentFirst(m, loopRaises, cb) ==
    /\ pc = "loop"
    /\ budget > 0
    /\ IF infos.all THEN infos' = infos
       ELSE /\ infos.list # <<>>
            /\ m = Head(infos.list)
            /\ infos' = [infos EXCEPT !.list = Tail(@)]
    /\ cur' = m
    /\ budget' = budget - 1
    /\ LET g == Guard(m, cfg)
           d == Sandbox(fs, m, loopRaises)
           same == UNCHANGED <<fs, deferred_symlinks, deferred_dirs,
                               extracted_paths, dest>>
       IN
       IF g.e # "" THEN RaiseMember(m, cb, g.e) /\ disp' = "" /\ same
       ELSE IF g.v = "skip" THEN
            pc' = "loop" /\ err' = "" /\ events' = events /\ disp' = "skip" /\ same
       ELSE
       /\ disp' = g.v
       /\ IF d.e # "" THEN RaiseMember(m, cb, d.e) /\ same
          ELSE IF g.v = "defer_symlink" THEN
               /\ deferred_symlinks' =
                      Append(deferred_symlinks, <<d.v, m.linkname>>)
               /\ pc' = "loop" /\ err' = "" /\ events' = events
               /\ UNCHANGED <<fs, deferred_dirs, extracted_paths, dest>>
          ELSE IF isdir(m) THEN
               LET mk == Mkdirs(fs, d.v, "member") IN
               IF mk.e # "" THEN RaiseMember(m, cb, mk.e) /\ same
               ELSE /\ fs' = mk.fs
                    /\ deferred_dirs' =
                           Append(deferred_dirs, <<Meta(m), d.v>>)
                    /\ extracted_paths' = extracted_paths \cup {d.v}
                    /\ pc' = "loop" /\ err' = "" /\ events' = events
                    /\ UNCHANGED <<deferred_symlinks, dest>>
          ELSE IF islnk(m) THEN
               LET t == verify_hardlink_target(fs, Base, m.linkname,
                                               extracted_paths, loopRaises)
                   mk == Mkdirs(fs, Parent(d.v), "parent")
                   ln == Link(mk.fs, t.v, d.v)
               IN
               IF t.e # "" THEN
                    /\ RaiseMember(m, cb, t.e) /\ fs' = mk.fs
                    /\ UNCHANGED <<deferred_symlinks, deferred_dirs,
                                   extracted_paths, dest>>
               ELSE IF mk.e # "" THEN RaiseMember(m, cb, mk.e) /\ same
               ELSE IF ln.e # "" THEN
                    /\ RaiseMember(m, cb, ln.e) /\ fs' = mk.fs
                    /\ UNCHANGED <<deferred_symlinks, deferred_dirs,
                                   extracted_paths, dest>>
               ELSE /\ fs' = ln.fs
                    /\ extracted_paths' = extracted_paths \cup {d.v}
                    /\ pc' = "loop" /\ err' = "" /\ events' = events
                    /\ UNCHANGED <<deferred_symlinks, deferred_dirs, dest>>
          ELSE /\ dest' = d.v
               /\ pc' = "stream" /\ err' = "" /\ events' = events
               /\ UNCHANGED <<fs, deferred_symlinks, deferred_dirs,
                              extracted_paths>>
    /\ UNCHANGED <<cfg, archive, other, count, resources, written, remaining, chunk, member_bytes, total_bytes>>

\* _extract_one for the next member m, up to the call of the Streamer:
\* Guard, path resolution, then the deferred symlink, the directory or the
\* hardlink.
ExtractOne(m, loopRaises, cb) ==
    /\ pc = "loop"
    /\ budget > 0
    /\ IF infos.all THEN infos' = infos
       ELSE /\ infos.list # <<>>
            /\ m = Head(infos.list)
            /\ infos' = [infos EXCEPT !.list = Tail(@)]
    /\ cur' = m
    /\ budget' = budget - 1
    /\ LET g == Guard(m, cfg)
           d == Sandbox(fs, m, loopRaises)
           same == UNCHANGED <<fs, deferred_symlinks, deferred_dirs,
                               extracted_paths, dest>>
       IN
       IF g.e # "" THEN RaiseMember(m, cb, g.e) /\ disp' = "" /\ same
       ELSE IF g.v = "skip" THEN
            pc' = "loop" /\ err' = "" /\ events' = events /\ disp' = "skip" /\ same
       ELSE
       /\ disp' = g.v
       /\ IF d.e # "" THEN RaiseMember(m, cb, d.e) /\ same
          ELSE IF g.v = "defer_symlink" THEN
               /\ deferred_symlinks' =
                      Append(deferred_symlinks, <<d.v, m.linkname>>)
               /\ pc' = "loop" /\ err' = "" /\ events' = events
               /\ UNCHANGED <<fs, deferred_dirs, extracted_paths, dest>>
          ELSE IF isdir(m) THEN
               LET mk == Mkdirs(fs, d.v, "member") IN
               IF mk.e # "" THEN RaiseMember(m, cb, mk.e) /\ same
               ELSE /\ fs' = mk.fs
                    /\ deferred_dirs' =
                           Append(deferred_dirs, <<Meta(m), d.v>>)
                    /\ extracted_paths' = extracted_paths \cup {d.v}
                    /\ pc' = "loop" /\ err' = "" /\ events' = events
                    /\ UNCHANGED <<deferred_symlinks, dest>>
          ELSE IF islnk(m) THEN
               LET t == verify_hardlink_target(fs, Base, m.linkname,
                                               extracted_paths, loopRaises)
                   mk == Mkdirs(fs, Parent(d.v), "parent")
                   ln == Link(mk.fs, t.v, d.v)
               IN
               IF t.e # "" THEN RaiseMember(m, cb, t.e) /\ same
               ELSE IF mk.e # "" THEN RaiseMember(m, cb, mk.e) /\ same
               ELSE IF ln.e # "" THEN
                    /\ RaiseMember(m, cb, ln.e) /\ fs' = mk.fs
                    /\ UNCHANGED <<deferred_symlinks, deferred_dirs,
                                   extracted_paths, dest>>
               ELSE /\ fs' = ln.fs
                    /\ extracted_paths' = extracted_paths \cup {d.v}
                    /\ pc' = "loop" /\ err' = "" /\ events' = events
                    /\ UNCHANGED <<deferred_symlinks, deferred_dirs, dest>>
          ELSE /\ dest' = d.v
               /\ pc' = "stream" /\ err' = "" /\ events' = events
               /\ UNCHANGED <<fs, deferred_symlinks, deferred_dirs,
                              extracted_paths>>
    /\ UNCHANGED <<cfg, archive, other, count, resources, written, remaining, chunk, member_bytes, total_bytes>>

\* extract_member_streaming, up to the first read: the per-member counter
\* is reset, the parent directories are made, the reader is asked for the
\* member's stream and the temporary file is opened.  linkFound, linkSize:
\* whether the archive holds the link target the reader looks up, and how
\* many bytes that member has.
StreamOpen(linkFound, linkSize, cb) ==
    /\ pc = "stream"
    /\ member_bytes' = 0
    /\ LET temp_path == TempPath(dest)
           mk == Mkdirs(fs, Parent(temp_path), "parent")
           source == ExtractFile(cur)
           size == IF source = "stream" THEN cur.size
                   ELSE IF source = "link" THEN linkSize ELSE 0
           op == CreateFile(mk.fs, temp_path, FileNode("temp", size, 0))
       IN
       IF mk.e # "" THEN
            RaiseMember(cur, cb, mk.e) /\ fs' = Unlink(fs, temp_path) /\ remaining' = remaining
       ELSE IF source = "link" /\ ~linkFound THEN
            RaiseMember(cur, cb, KEYERROR) /\ fs' = Unlink(mk.fs, temp_path)
            /\ remaining' = remaining
       ELSE IF op.e # "" THEN
            RaiseMember(cur, cb, op.e) /\ fs' = Unlink(mk.fs, temp_path)
            /\ remaining' = remaining
       ELSE /\ fs' = op.fs
            /\ remaining' = size
            /\ pc' = IF source = "none" THEN "commit" ELSE "copy"
            /\ err' = "" /\ events' = events
    /\ UNCHANGED <<cfg, archive, other, infos, count, resources, written, budget, cur, disp, dest, chunk, total_bytes,
                   deferred_symlinks, deferred_dirs, extracted_paths>>

\* The copy loop left after its first chunk.
CopyChunkOnce ==
    /\ pc = "copy"
    /\ LET temp == Entry(fs, TempPath(dest)).p
           n == IF remaining < ChunkBytes THEN remaining ELSE ChunkBytes
       IN
       /\ fs' = [fs EXCEPT ![temp].bytes = @ + n]
       /\ remaining' = remaining - n
       /\ chunk' = n
       /\ pc' = "commit"
    /\ UNCHANGED <<cfg, archive, other, infos, count, resources, written, events, budget, cur, disp, dest, member_bytes,
                   total_bytes, deferred_symlinks, deferred_dirs,
                   extracted_paths, err>>

\* One pass of the copy loop up to out.write(chunk): the reader yields the
\* next chunk, which is written to the temporary file; at the end of the
\* stream the loop is left.
CopyChunk ==
    /\ pc = "copy"
    /\ LET temp == Entry(fs, TempPath(dest)).p
           n == IF remaining < ChunkBytes THEN remaining ELSE ChunkBytes
       IN
       IF remaining = 0 THEN
            pc' = "commit" /\ UNCHANGED <<fs, remaining, chunk>>
       ELSE /\ fs' = [fs EXCEPT ![temp].bytes = @ + n]
            /\ remaining' = remaining - n
            /\ chunk' = n
            /\ pc' = "account"
    /\ UNCHANGED <<cfg, archive, other, infos, count, resources, written, events, budget, cur, disp, dest, member_bytes,
                   total_bytes, deferred_symlinks, deferred_dirs,
                   extracted_paths, err>>

\* source.read() or out.write() fails: the reader's TarError / EOFError is
\* wrapped as MalformedArchiveError, an OSError passes through; either way
\* the temporary file is removed.
CopyFails(kind, cb) ==
    /\ pc = "copy"
    /\ remaining > 0
    /\ kind \in {MALFORMED_ARCHIVE, OSERROR}
    /\ fs' = Unlink(fs, TempPath(dest))
    /\ RaiseMember(cur, cb, kind)
    /\ UNCHANGED <<cfg, archive, other, infos, count, resources, written, budget, cur, disp, dest, remaining, chunk,
                   member_bytes, total_bytes, deferred_symlinks, deferred_dirs,
                   extracted_paths>>

\* monitor.account(len(chunk)) for the chunk just written.
Account(cb) ==
    /\ pc = "account"
    /\ member_bytes' = member_bytes + chunk
    /\ total_bytes' = total_bytes + chunk
    /\ LET e == MonitorError(cfg, member_bytes', total_bytes') IN
       IF e # "" THEN RaiseMember(cur, cb, e) /\ fs' = Unlink(fs, TempPath(dest))
       ELSE pc' = "copy" /\ err' = "" /\ events' = events /\ fs' = fs
    /\ UNCHANGED <<cfg, archive, other, infos, count, resources, written, budget, cur, disp, dest, remaining, chunk,
                   deferred_symlinks, deferred_dirs, extracted_paths>>

\* What the run keeps of a committed member: where it went, how many
\* bytes the archive holds for it, whether it is a regular file.
Written1(m, dest_path) ==
    [path |-> dest_path, size |-> m.size, regular |-> m.type \in REGULAR_TYPES]

\* extracted_paths.add(dest_path) without the rename before it.
CommitUnrenamed(cb) ==
    /\ pc = "commit"
    /\ fs' = fs
    /\ extracted_paths' = extracted_paths \cup {dest}
    /\ written' = Append(written, Written1(cur, dest))
    /\ pc' = "loop" /\ err' = "" /\ events' = events
    /\ UNCHANGED <<cfg, archive, other, infos, count, resources, budget, cur, disp, dest, remaining, chunk,
                   member_bytes, total_bytes, deferred_symlinks, deferred_dirs>>

\* The atomic rename that ends extract_member_streaming, then
\* _apply_metadata and extracted_paths.add(dest_path).
Commit(cb) ==
    /\ pc = "commit"
    /\ LET mv == Rename(fs, TempPath(dest), dest, "member") IN
       IF mv.e # "" THEN
            /\ RaiseMember(cur, cb, mv.e)
            /\ fs' = Unlink(fs, TempPath(dest))
            /\ extracted_paths' = extracted_paths
            /\ written' = written
       ELSE /\ \E chown \in ChownOutcomes :
                   fs' = ApplyMeta(mv.fs, dest, cur, cfg, chown)
            /\ extracted_paths' = extracted_paths \cup {dest}
            /\ written' = Append(written, Written1(cur, dest))
            /\ pc' = "loop" /\ err' = "" /\ events' = events
    /\ UNCHANGED <<cfg, archive, other, infos, count, resources, budget, cur, disp, dest, remaining, chunk,
                   member_bytes, total_bytes, deferred_symlinks, deferred_dirs>>

\* The member loop ends: the selection has no further member.
EndOfMembers ==
    /\ pc = "loop"
    /\ infos.all \/ infos.list = <<>>
    /\ pc' = "symlinks"
    /\ cur' = NoMember
    /\ disp' = ""
    /\ UNCHANGED <<fs, cfg, archive, other, infos, written, count, resources, events, budget, dest, remaining, chunk,
                   member_bytes, total_bytes, deferred_symlinks, deferred_dirs,
                   extracted_paths, err>>

\* One pass of the deferred-symlink loop: the chain is verified, the
\* parent directories are made and the symlink is created.
SymlinkStep(loopRaises) ==
    /\ pc = "symlinks"
    /\ IF deferred_symlinks = <<>> THEN
            pc' = "dirmeta" /\ UNCHANGED <<fs, deferred_symlinks, err>>
       ELSE
       LET sym_path == Head(deferred_symlinks)[1]
           sym_target == Head(deferred_symlinks)[2]
           v == verify_symlink_chain(fs, Base, sym_path, sym_target, loopRaises)
           mk == Mkdirs(fs, Parent(sym_path), "parent")
           sl == Symlink(mk.fs, sym_target, sym_path)
       IN
       IF v # "" THEN Raise(v) /\ UNCHANGED <<fs, deferred_symlinks>>
       ELSE IF mk.e # "" THEN Raise(mk.e) /\ UNCHANGED <<fs, deferred_symlinks>>
       ELSE IF sl.e # "" THEN
            Raise(sl.e) /\ fs' = mk.fs /\ UNCHANGED deferred_symlinks
       ELSE /\ fs' = sl.fs
            /\ deferred_symlinks' = Tail(deferred_symlinks)
            /\ pc' = "symlinks" /\ err' = ""
    /\ UNCHANGED <<cfg, archive, other, infos, count, resources, written, events, budget, cur, disp, dest, remaining, chunk,
                   member_bytes, total_bytes, deferred_dirs, extracted_paths>>

\* The metadata of a directory applied while members are still extracted.
DirMetaEarly ==
    /\ pc \in {"loop", "dirmeta"}
    /\ IF deferred_dirs = <<>> THEN
            pc = "dirmeta" /\ pc' = "done" /\ UNCHANGED <<fs, deferred_dirs>>
       ELSE /\ \E chown \in ChownOutcomes :
                   fs' = ApplyMeta(fs, Head(deferred_dirs)[2],
                                   Head(deferred_dirs)[1], cfg, chown)
            /\ deferred_dirs' = Tail(deferred_dirs)
            /\ pc' = pc
    /\ UNCHANGED <<cfg, archive, other, infos, count, resources, written, events, budget, cur, disp, dest, remaining, chunk,
                   member_bytes, total_bytes, deferred_symlinks,
                   extracted_paths, err>>

\* One pass of the deferred directory metadata loop.
DirMetaStep ==
    /\ pc = "dirmeta"
    /\ IF deferred_dirs = <<>> THEN
            pc' = "done" /\ UNCHANGED <<fs, deferred_dirs>>
       ELSE /\ \E chown \in ChownOutcomes :
                   fs' = ApplyMeta(fs, Head(deferred_dirs)[2],
                                   Head(deferred_dirs)[1], cfg, chown)
            /\ deferred_dirs' = Tail(deferred_dirs)
            /\ pc' = "dirmeta"
    /\ UNCHANGED <<cfg, archive, other, infos, count, resources, written, events, budget, cur, disp, dest, remaining, chunk,
                   member_bytes, total_bytes, deferred_symlinks,
                   extracted_paths, err>>

Next ==
    \/ ExtractAll
    \/ \E m \in archive, loopRaises \in BOOLEAN, cb \in Callbacks :
            ExtractOne(m, loopRaises, cb)
    \/ \E linkFound \in BOOLEAN, linkSize \in 0..MaxSize, cb \in Callbacks :
            StreamOpen(linkFound, linkSize, cb)
    \/ CopyChunk
    \/ \E kind \in {MALFORMED_ARCHIVE, OSERROR}, cb \in Callbacks :
            CopyFails(kind, cb)
    \/ \E cb \in Callbacks : Account(cb)
    \/ \E cb \in Callbacks : Commit(cb)
    \/ EndOfMembers
    \/ \E loopRaises \in BOOLEAN : SymlinkStep(loopRaises)
    \/ DirMetaStep

Spec == Init /\ [][Next]_vars
SpecTypes == InitTypes /\ [][Next]_vars
SpecLinks == InitLinks /\ [][Next]_vars

\* A destination that holds a chain of symlinks from before the run:
\* c -> cc -> ccc -> ... , one link longer than max_follow, the last one
\* naming a.
ChainLength == MAX_FOLLOW + 1
ChainName(i) == [k \in 1..i |-> "c"]
ChainLayout ==
    [p \in {Append(Base, ChainName(i)) : i \in 1..ChainLength} |->
        SymNode("pre", IF Len(Last(p)) < ChainLength
                       THEN ChainName(Len(Last(p)) + 1) ELSE <<"a">>)]
    @@ BaseOnly
\* Symlinks into that chain at its first and its second link, a symlink
\* naming itself and one naming that one, a regular file and a directory.
ChainCatalogue ==
    {Member(<<"l">>, SYMTYPE, t, 0, FALSE, FALSE) :
        t \in {ChainName(1), ChainName(2), <<"x">>}}
    \cup {Member(<<"x">>, SYMTYPE, <<"x">>, 0, FALSE, FALSE)}
    \cup {Member(<<"a">>, REGTYPE, <<>>, z, FALSE, FALSE) : z \in 0..MaxSize}
    \cup {Member(<<"d">>, DIRTYPE, <<>>, 0, FALSE, FALSE)}

InitChain ==
    /\ cfg = Permissive
    /\ fs = ChainLayout
    /\ archive = ChainCatalogue
    /\ budget = MaxMembers
    /\ Idle
    /\ Alone

SpecChain == InitChain /\ [][Next]_vars

\* ------------------------------------------------------- the constructor
FILE_COUNT_EXCEEDED == "FILE_COUNT_EXCEEDED"
NESTING_DEPTH_EXCEEDED == "NESTING_DEPTH_EXCEEDED"
VALUEERROR == "ValueError"
\* mode arguments, and what the file argument is: the path of a file, a
\* path that names nothing, a seekable file object of the caller's, or a
\* stream that has to be buffered.
Modes == {<<"r", ":", "*">>, <<"w">>, <<"a">>, <<"x", ":", "g", "z">>}
Files == {"path", "missing", "seekable", "stream"}
\* any(mode.startswith(p) for p in ("w", "a", "x"))
WriteMode(mode) == mode # <<>> /\ mode[1] \in {"w", "a", "x"}
\* What follows the archive's last readable header: its clean end, a
\* structural defect the pre-scan's reader runs into, or one that only the
\* reader opened for extraction reports.
Defects == {"none", "scan", "open"}

\* The handle with its callback and max_files as given.
OpenConfigs ==
    {[Permissive EXCEPT !.max_files = n, !.on_security_event = cb,
                        !.callback = way] :
        n \in {MaxMembers - 1, MaxMembers}, cb \in BOOLEAN,
        way \in {"returns", "raises", "exits"}}
    \cup {[Permissive EXCEPT !.mode = mode, !.file = file] :
             mode \in Modes, file \in Files}
OpenCatalogue ==
    {Member(<<"a">>, REGTYPE, <<>>, 1, FALSE, FALSE),
     Member(<<".", ".", "/", "e">>, REGTYPE, <<>>, 1, FALSE, FALSE),
     Member(<<"d">>, DIRTYPE, <<>>, 0, FALSE, FALSE),
     Member(<<"l">>, SYMTYPE, <<".", ".", "/", "e">>, 0, FALSE, FALSE)}

\* SafeTarFile(...) has been called on an archive of 0 .. max_files + 1
\* readable headers; nothing of the constructor has run yet.
InitOpen ==
    /\ cfg \in OpenConfigs
    /\ fs \in {OldFile, NoBase}
    /\ archive = OpenCatalogue
    /\ budget \in 0..(MaxMembers + 1)
    /\ pc = "new"
    /\ cur = NoMember
    /\ disp = ""
    /\ dest = <<>>
    /\ remaining = 0
    /\ chunk = 0
    /\ member_bytes = 0
    /\ total_bytes = 0
    /\ deferred_symlinks = <<>>
    /\ deferred_dirs = <<>>
    /\ extracted_paths = {}
    /\ err = ""
    /\ count = 0
    /\ events = <<>>
    /\ resources = Resources(<<>>, <<>>)
    /\ written = <<>>
    /\ infos = Every
    /\ Alone

\* An error leaves the constructor: there is no handle.
RaiseInit(kind) ==
    /\ pc' = "openfailed"
    /\ err' = kind

\* ensure_seekable: what the handle holds afterwards, or the error.  A
\* path is opened and a stream is buffered into a spooled file, both the
\* handle's own; a spool that outgrows max_total_size is closed again.
ensure_seekable(file, overflow) ==
    IF file = "missing" THEN Err(OSERROR)
    ELSE IF file = "seekable" THEN Ok(<<>>)
    ELSE IF file = "stream" /\ overflow THEN Err(TOTAL_SIZE_EXCEEDED)
    ELSE Ok(<<"fileobj">>)

\* fileobj.tell() as the input is handed over, and after seek(0, 2).
tell(input) == input.front_size
seek_end(input) == input.front_size + input.size
\* What the SHA-256 of the bytes from position pos on hashes to: the digit
\* "0" for the bytes from the handed-over position on, "1" for a longer
\* range.
sha256(input, pos) == IF pos < input.front_size THEN "1" ELSE "0"
\* The members that a reader opened at position pos yields, given that
\* the archive at the handed-over position holds n.
members_at(input, pos, n) ==
    IF pos < input.front_size THEN input.front_members ELSE n

\* __init__ with the input made seekable before the mode is looked at.
OpenInputFirst(deep, overflow, hashFails) ==
    /\ pc = "new"
    /\ LET f == ensure_seekable(cfg.file, overflow) IN
       IF f.e # "" THEN RaiseInit(f.e) /\ resources' = resources
       ELSE /\ resources' = Resources(f.v, <<>>)
            /\ IF WriteMode(cfg.mode) THEN RaiseInit(VALUEERROR)
               ELSE pc' = "prescan" /\ err' = ""
    /\ count' = 0
    /\ UNCHANGED <<fs, cfg, archive, other, infos, written, events, budget, cur, disp, dest,
                   remaining, chunk, member_bytes, total_bytes,
                   deferred_symlinks, deferred_dirs, extracted_paths>>

\* __init__ up to the pre-scan: the mode and the nesting depth are
\* checked, the input is made seekable, the archive's hash and size are
\* taken.  deep: _nesting_depth > max_nesting_depth; overflow: the stream
\* to buffer is longer than max_total_size; hashFails: reading the input
\* for the hash fails.
Open(deep, overflow, hashFails) ==
    /\ pc = "new"
    /\ LET f == ensure_seekable(cfg.file, overflow) IN
       IF WriteMode(cfg.mode) THEN
            RaiseInit(VALUEERROR) /\ resources' = resources
       ELSE IF deep THEN
            RaiseInit(NESTING_DEPTH_EXCEEDED) /\ resources' = resources
       ELSE IF f.e # "" THEN RaiseInit(f.e) /\ resources' = resources
       ELSE /\ resources' = Resources(f.v, <<>>)
            /\ IF hashFails THEN RaiseInit(OSERROR)
               ELSE pc' = "prescan" /\ err' = ""
    /\ cfg' = IF pc' = "prescan"
              THEN [cfg EXCEPT !.archive_hash = compute_archive_hash(
                                   hexdigest(sha256(cfg.input, tell(cfg.input)))),
                               !.archive_size = seek_end(cfg.input)]
              ELSE cfg
    /\ count' = 0
    /\ UNCHANGED <<fs, archive, other, infos, written, events, budget, cur, disp, dest,
                   remaining, chunk, member_bytes, total_bytes,
                   deferred_symlinks, deferred_dirs, extracted_paths>>

\* The reader's error takes the place of the pending one.
pre_scan_error_unguarded(pending, readerError) ==
    IF readerError THEN MALFORMED_ARCHIVE ELSE pending

\* The except clauses of pre_scan_file_count: what leaves the function
\* when pending is on its way out and the reader raises (readerError) on
\* top of it.
pre_scan_error(pending, readerError) ==
    IF readerError
    THEN IF pending = FILE_COUNT_EXCEEDED THEN FILE_COUNT_EXCEEDED
         ELSE MALFORMED_ARCHIVE
    ELSE pending

\* One pass of pre_scan_file_count's loop and, at the end of the archive,
\* the rest of __init__: the scan's reader is left, the input is rewound
\* and the reader for extraction is opened.  exitRaises: leaving the scan's
\* reader raises a reader error on top of the pending one.
PreScanStep(defect, exitRaises) ==
    /\ pc = "prescan"
    /\ IF count < budget THEN
            /\ count' = count + 1
            /\ IF count' > cfg.max_files
               THEN RaiseInit(pre_scan_error(FILE_COUNT_EXCEEDED, exitRaises))
               ELSE pc' = "prescan" /\ err' = ""
       ELSE IF defect = "scan" THEN
            RaiseInit(pre_scan_error("", TRUE)) /\ count' = count
       ELSE IF defect = "open" THEN
            RaiseInit(MALFORMED_ARCHIVE) /\ count' = 0
       ELSE pc' = "idle" /\ err' = "" /\ count' = 0
    /\ resources' = IF pc' = "idle"
                    THEN [resources EXCEPT !.held = Append(@, "tf")]
                    ELSE resources
    /\ budget' = IF pc' = "idle" THEN members_at(cfg.input, 0, budget)
                 ELSE budget
    /\ UNCHANGED <<fs, cfg, archive, other, infos, written, events, cur, disp, dest,
                   remaining, chunk, member_bytes, total_bytes,
                   deferred_symlinks, deferred_dirs, extracted_paths>>

\* close(), also as __exit__ of the with-block the handle was used in:
\* the reader is closed, then the handle's own file object.
Close ==
    /\ pc \in {"idle", "done", "failed"}
    /\ pc' = "closed"
    /\ resources' = Resources(<<>>, <<"tf">> \o SelectSeq(resources.held,
                                            LAMBDA r : r = "fileobj"))
    /\ UNCHANGED <<fs, cfg, archive, other, infos, written, count, events, budget, cur, disp, dest,
                   remaining, chunk, member_bytes, total_bytes,
                   deferred_symlinks, deferred_dirs, extracted_paths, err>>

\* What extract and extractall may be handed for a member: the TarInfo or
\* the name of one of the archive's members, or a name it does not hold.
Selectors ==
    {m \in {Selector(info, byname, found) :
                info \in archive, byname \in BOOLEAN, found \in BOOLEAN} :
        /\ m.byname \/ m.found
        /\ m.found => budget > 0}

NextOpen ==
    \/ \E deep \in BOOLEAN, overflow \in BOOLEAN, hashFails \in BOOLEAN :
            Open(deep, overflow, hashFails)
    \/ \E defect \in Defects, exitRaises \in BOOLEAN :
            PreScanStep(defect, exitRaises)
    \/ Close
    \/ \E member \in Selectors : Extract(member)
    \/ \E member \in Selectors : extractall(Members(<<member>>))
    \/ Next

SpecOpen == InitOpen /\ [][NextOpen]_vars

\* ------------------------------------------------------------ properties
\* p carries the temporary-file suffix.
IsTempName(p) == p # Root /\ Last(p) # <<>> /\ Last(Last(p)) = TMPSUFFIX
\* The member being streamed has its temporary file open.
Streaming == pc \in {"copy", "account", "commit"}
\* This step is _extract_one reaching the member cur'.
MemberStep == pc = "loop" /\ budget' = budget - 1
\* This step leaves the filesystem, both queues and ExtractedSet as they were.
Untouched ==
    /\ fs' = fs
    /\ deferred_symlinks' = deferred_symlinks
    /\ deferred_dirs' = deferred_dirs
    /\ extracted_paths' = extracted_paths
\* The Guard's entry-type check of the member reached last.
TypeCheck ==
    validate_entry_type(cur, cfg.symlink_policy, cfg.hardlink_policy,
                        cfg.sparse_policy)
TypeCheckNext ==
    validate_entry_type(cur', cfg.symlink_policy, cfg.hardlink_policy,
                        cfg.sparse_policy)

\* C1: once extractall has returned successfully, every path the run
\* created (file, directory, hardlink, symlink) is located in the base
\* directory or below it, and so is what it leads to once every symlink is
\* followed.
C1_Contained ==
    pc = "done" =>
        \A p \in DOMAIN fs :
            fs[p].via # "pre" =>
                /\ IsInside(p, Base)
                /\ Lookup(fs, p).e = "" => IsInside(Lookup(fs, p).p, Base)

\* A symlink the run created is on disk.
RunSymlinkExists(f) ==
    \E p \in DOMAIN f : f[p].kind = "sym" /\ f[p].via = "symlink"
\* The files, hardlinks and directories that g holds and f does not, or
\* holds with other content (metadata aside).
Content(n) == [n EXCEPT !.meta = FALSE, !.mode = 0, !.owner = "self"]
Written(f, g) ==
    {p \in DOMAIN g :
        /\ g[p].kind # "sym"
        /\ \/ p \notin DOMAIN f
           \/ Content(g[p]) # Content(f[p])}

\* C2: no regular file, hardlink or directory is written while a symlink
\* created by this run exists: every symlink creation comes after the last
\* such write.
C2_SymlinksLast == [][RunSymlinkExists(fs) => Written(fs, fs') = {}]_vars

\* The hardlink policy is INTERNAL and this step reaches a hardlink member.
HardlinkStep == MemberStep /\ islnk(cur') /\ cfg.hardlink_policy = "internal"
\* That member's link target, resolved as a member name.
HardlinkTarget == resolve_member_path(fs, Base, cur'.linkname, FALSE)
ForwardReference ==
    HardlinkTarget.e = "" /\ HardlinkTarget.v \notin extracted_paths
LinkMade == \E p \in DOMAIN fs' \ DOMAIN fs : fs'[p].via = "link"
LinkOnlyToExtracted ==
    LinkMade =>
        /\ HardlinkTarget.e = ""
        /\ HardlinkTarget.v \in extracted_paths
        /\ Exists(fs, HardlinkTarget.v)

\* C3 as stated: under hardlink_policy = INTERNAL a hardlink is made only
\* to a target that is in ExtractedSet and on disk, and a forward reference
\* fails with UNSAFE_ENTRY, no link made.
C3_Original ==
    [][HardlinkStep =>
        /\ LinkOnlyToExtracted
        /\ ForwardReference =>
               pc' = "failed" /\ err' = UNSAFE_ENTRY /\ fs' = fs]_vars

\* C3: under hardlink_policy = INTERNAL a hardlink is made only to a target
\* that is in ExtractedSet and on disk; a forward reference fails, no link
\* made, with UNSAFE_ENTRY, or with UNSAFE_ENTRY_TYPE when the member has
\* a sparse marker and sparse_policy is REJECT.
C3_HardlinkInternal ==
    [][HardlinkStep =>
        /\ LinkOnlyToExtracted
        /\ ForwardReference =>
               /\ pc' = "failed"
               /\ fs' = fs
               /\ err' = IF IsSparse(cur') /\ cfg.sparse_policy = "reject"
                         THEN UNSAFE_ENTRY_TYPE ELSE UNSAFE_ENTRY]_vars
\* A hardlink has just been made under INTERNAL.
C3_Witness ==
    /\ pc = "loop" /\ islnk(cur) /\ cfg.hardlink_policy = "internal"
    /\ \E p \in DOMAIN fs : fs[p].via = "link"

\* C4: a temporary file exists, and so member content is on disk, only
\* while a member is streamed whose header the Guard accepts for extraction
\* and whose name (and PAX path) the Sandbox resolves to the destination
\* inside the base directory.
C4_CheckedBeforeWritten ==
    /\ \A p \in DOMAIN fs :
           IsTempName(p) \/ fs[p].via = "temp" =>
               Streaming /\ p = Entry(fs, TempPath(dest)).p
    /\ Streaming =>
           /\ TypeCheck = Ok("extract")
           /\ validate_filename(cur).e = ""
           /\ validate_pax_path(cur).e = ""
           /\ resolve_member_path(fs, Base, cur.name, FALSE) = Ok(dest)
           /\ cur.has_pax_path =>
                  resolve_member_path(fs, Base, cur.pax_path, FALSE).e = ""
           /\ IsInside(Entry(fs, TempPath(dest)).p, Base)
\* Bytes of a member are in its temporary file.
C4_Witness ==
    /\ pc = "account"
    /\ fs[Entry(fs, TempPath(dest)).p].bytes > 0

\* C5: the first error ends the run: an error is raised exactly when the
\* run fails, no step follows the failure, a failure in the member loop
\* leaves every deferred symlink uncreated, and any failure leaves the
\* directories' deferred metadata unapplied.
C5_FirstErrorAborts ==
    [][/\ pc # "failed"
       /\ (err' # "") = (pc' = "failed")
       /\ pc' = "failed" =>
              /\ \A p \in DOMAIN fs' :
                     fs'[p].kind = "dir" => ~fs'[p].meta
              /\ cur' # NoMember => ~RunSymlinkExists(fs')
              /\ deferred_symlinks' = deferred_symlinks
              /\ deferred_dirs' = deferred_dirs]_vars
\* A member fails while a symlink waits in the queue.
C5_Witness ==
    /\ pc = "failed" /\ cur # NoMember
    /\ deferred_symlinks # <<>>
    /\ ~RunSymlinkExists(fs)

\* C6: every regular file under a name without the temporary suffix holds
\* complete content: what it held before the run, or all of a member.
C6_NoPartialFile ==
    \A p \in DOMAIN fs :
        fs[p].kind = "file" /\ ~IsTempName(p) => fs[p].bytes = fs[p].size
\* A member is half written while its destination holds its old content.
C6_Witness ==
    /\ pc = "account"
    /\ LET t == fs[Entry(fs, TempPath(dest)).p] IN 0 < t.bytes /\ t.bytes < t.size
    /\ Entry(fs, dest).p \in DOMAIN fs
    /\ fs[Entry(fs, dest).p].via = "pre"

\* C7: once extractall has ended, in success or in failure, no file with
\* the temporary suffix is left.
C7_NoTempLeft ==
    pc \in {"done", "failed"} =>
        \A p \in DOMAIN fs : ~IsTempName(p) /\ fs[p].via # "temp"
\* The run failed on a limit after bytes were written.
C7_Witness ==
    /\ pc = "failed"
    /\ err \in {FILE_SIZE_EXCEEDED, TOTAL_SIZE_EXCEEDED, COMPRESSION_RATIO_EXCEEDED}
    /\ member_bytes > 0

\* The name has a ".." segment once its backslashes are slashes.
DotDotNamed(m) ==
    /\ m # NoMember
    /\ LET parts == Split(ReplaceBackslash(m.name))
       IN \E i \in 1..Len(parts) : parts[i] = PARDIR

AbsoluteNamed(m) ==
    LET n == ReplaceBackslash(NFC(m.name)) IN
    \/ Len(n) >= 1 /\ n[1] = SEP
    \/ Len(n) >= 3 /\ n[1] \in Letters /\ n[2] = ":" /\ n[3] = SEP

\* C9 as stated: a member with an absolute name makes extractall fail with
\* UNSAFE_ENTRY, and nothing is created for it.
C9_Original ==
    [][MemberStep /\ AbsoluteNamed(cur') =>
        pc' = "failed" /\ err' = UNSAFE_ENTRY /\ Untouched]_vars

\* C9: nothing is created for a member with an absolute name: when the
\* entry-type check refuses it extractall fails with that check's error,
\* when that check skips it (a symlink under IGNORE) it is skipped, and
\* otherwise extractall fails with UNSAFE_ENTRY.
C9_AbsoluteRejected ==
    [][MemberStep /\ AbsoluteNamed(cur') =>
        /\ Untouched
        /\ IF TypeCheckNext.e # ""
           THEN pc' = "failed" /\ err' = TypeCheckNext.e
           ELSE IF TypeCheckNext.v = "skip"
           THEN pc' = "loop" /\ disp' = "skip" /\ err' = ""
           ELSE pc' = "failed" /\ err' = UNSAFE_ENTRY]_vars
\* A drive-letter name with backslashes is refused.
C9_Witness ==
    /\ pc = "failed" /\ err = UNSAFE_ENTRY
    /\ cur.name = <<"c", ":", BSL, "e">>
    /\ TypeCheck = Ok("extract")

\* C10: under every policy combination and whatever else its header holds
\* (sparse markers included), a character device, block device, FIFO or
\* member of unknown type makes extractall fail with UNSAFE_ENTRY_TYPE.
C10_SpecialRejected ==
    cur.type \in FORBIDDEN_TYPES \cup {UNKNOWNTYPE} =>
        pc = "failed" /\ err = UNSAFE_ENTRY_TYPE

\* ---------------------------------------------------------------- C11
\* C11: during a run with hardlink_policy = REJECT no hardlink is ever
\* created on disk: every hardlink member the run reaches, whatever else
\* its header holds, is refused by the Guard.
C11_NoHardlinkUnderReject ==
    cfg.hardlink_policy = "reject" =>
        \A p \in DOMAIN fs : fs[p].via # "link"

\* ---------------------------------------------------------------- C12
\* C12: under symlink_policy = REJECT every symlink member the run reaches,
\* whatever else its header holds, makes extractall fail with UNSAFE_ENTRY;
\* it is never handed to the Streamer.
C12_SymlinkRejected ==
    cfg.symlink_policy = "reject" /\ issym(cur) =>
        pc = "failed" /\ err = UNSAFE_ENTRY

\* ---------------------------------------------------------------- C13
\* C13: under symlink_policy = IGNORE a symlink member is skipped silently:
\* the step that reaches it leaves the filesystem, the monitors, the two
\* queues, ExtractedSet and the events alone, raises nothing and goes on
\* with the member loop.
C13_IgnoredSilently ==
    [][MemberStep /\ cfg.symlink_policy = "ignore" /\ issym(cur') =>
          /\ pc' = "loop"
          /\ err' = ""
          /\ Untouched
          /\ UNCHANGED <<member_bytes, total_bytes, events>>]_vars

\* ---------------------------------------------------------------- C14
\* The deferred symlink the loop is about to realise, and where its target
\* leads when composed with the symlink's parent and resolved now.
NextSymlink == Head(deferred_symlinks)
NextSymlinkTarget ==
    Resolve(fs, JoinPath(Parent(NextSymlink[1]), NextSymlink[2]))
\* The filesystem without the symlinks this run created.
WithoutRunSymlinks(f) ==
    [p \in {q \in DOMAIN f : f[q].via # "symlink"} |-> f[p]]

\* C14: under RESOLVE_INTERNAL, when the target of the deferred symlink
\* about to be realised resolves, at that moment, to a place outside the
\* base directory, extractall fails with UNSAFE_ENTRY and the filesystem is
\* left as it is: the symlink is not created.
C14_EscapingSymlinkRefused ==
    [][/\ pc = "symlinks"
       /\ deferred_symlinks # <<>>
       /\ ~NextSymlinkTarget.loop
       /\ ~IsInside(NextSymlinkTarget.p, Base)
       => /\ pc' = "failed"
          /\ err' = UNSAFE_ENTRY
          /\ fs' = fs
          /\ deferred_symlinks' = deferred_symlinks]_vars

\* The run has failed on a deferred symlink whose target leaves the base
\* directory only by way of a symlink realised earlier in the same batch.
C14_Witness ==
    /\ pc = "failed"
    /\ err = UNSAFE_ENTRY
    /\ cur = NoMember
    /\ deferred_symlinks # <<>>
    /\ ~NextSymlinkTarget.loop
    /\ ~IsInside(NextSymlinkTarget.p, Base)
    /\ ~Exists(fs, NextSymlink[1])
    /\ IsInside(Resolve(WithoutRunSymlinks(fs),
                        JoinPath(Parent(NextSymlink[1]), NextSymlink[2])).p,
                Base)

\* ---------------------------------------------------------------- C15
\* The symlink hops a walk from p takes without leaving the links, counted
\* up to n.
RECURSIVE Hops(_, _, _)
Hops(f, p, n) ==
    IF n = 0 \/ ~IsSymlink(f, p) THEN 0
    ELSE LET link == Entry(f, p).p
         IN 1 + Hops(f, JoinPath(Parent(link), f[link].target), n - 1)
\* The hops the target of the deferred symlink about to be realised leads
\* through: more than max_follow for a longer chain and for a loop.
NextSymlinkHops ==
    Hops(fs, JoinPath(Parent(NextSymlink[1]), NextSymlink[2]), MAX_FOLLOW + 1)

\* C15: when the target of the deferred symlink about to be realised leads
\* through more than max_follow symlink hops, or through a symlink loop,
\* extractall fails with UNSAFE_ENTRY and the symlink is not created.
C15_LongChainRefused ==
    [][/\ pc = "symlinks"
       /\ deferred_symlinks # <<>>
       /\ NextSymlinkHops > MAX_FOLLOW
       => /\ pc' = "failed"
          /\ err' = UNSAFE_ENTRY
          /\ fs' = fs]_vars

\* ---------------------------------------------------------------- C16
\* The temporary file of the member being streamed.
TempFile == fs[Entry(fs, TempPath(dest)).p]
\* This step is monitor.account for the chunk just written, and it raises
\* kind.
AccountRaises(kind) == pc' = "failed" /\ err' = kind

\* C16: the per-member counter counts the bytes written for the member
\* being streamed and nothing else (it starts at 0 for every member), and
\* accounting a chunk fails with FILE_SIZE_EXCEEDED exactly when the
\* member's bytes then exceed max_file_size: a member of exactly
\* max_file_size bytes never raises it.
C16_FileSizeLimit ==
    [][pc = "account" =>
          /\ member_bytes + chunk = TempFile.bytes
          /\ AccountRaises(FILE_SIZE_EXCEEDED)
                <=> TempFile.bytes > cfg.max_file_size]_vars

\* A member of exactly max_file_size bytes has been extracted after bytes
\* of an earlier member had been accounted.
C16_Witness ==
    /\ pc = "loop"
    /\ disp = "extract"
    /\ cur.size = cfg.max_file_size
    /\ member_bytes = cfg.max_file_size
    /\ total_bytes > member_bytes
    /\ dest \in extracted_paths
    /\ Exists(fs, dest)
    /\ fs[Lookup(fs, dest).p].bytes = cfg.max_file_size

\* ---------------------------------------------------------------- C17
\* C17 as stated: accounting a chunk that takes the grand total over
\* max_total_size makes extractall fail with TOTAL_SIZE_EXCEEDED.
C17_Original ==
    [][pc = "account" /\ total_bytes + chunk > cfg.max_total_size =>
          AccountRaises(TOTAL_SIZE_EXCEEDED)]_vars

\* C17: accounting a chunk fails with TOTAL_SIZE_EXCEEDED exactly when the
\* grand total then exceeds max_total_size and the member's own bytes do
\* not exceed max_file_size; when the total is exceeded the run fails
\* either way, and it leaves no temporary file and no member file holding
\* more or less than its content.
C17_TotalSizeLimit ==
    [][pc = "account" =>
          /\ AccountRaises(TOTAL_SIZE_EXCEEDED)
                <=> /\ total_bytes + chunk > cfg.max_total_size
                    /\ member_bytes + chunk <= cfg.max_file_size
          /\ total_bytes + chunk > cfg.max_total_size =>
                /\ pc' = "failed"
                /\ err' \in {TOTAL_SIZE_EXCEEDED, FILE_SIZE_EXCEEDED}
                /\ \A p \in DOMAIN fs' :
                      fs'[p].kind = "file" =>
                          fs'[p].via # "temp" /\ fs'[p].bytes = fs'[p].size]_vars

\* The run failed on the grand total, in a member within its own limit,
\* after another member had been extracted.
C17_Witness ==
    /\ pc = "failed"
    /\ err = TOTAL_SIZE_EXCEEDED
    /\ total_bytes > cfg.max_total_size
    /\ member_bytes <= cfg.max_file_size
    /\ member_bytes < total_bytes
    /\ extracted_paths # {}

\* ---------------------------------------------------------------- C18
\* C18 as stated: accounting a chunk fails with COMPRESSION_RATIO_EXCEEDED
\* exactly when archive_size > 0 and the grand total over archive_size then
\* exceeds max_ratio.
C18_Original ==
    [][pc = "account" =>
          AccountRaises(COMPRESSION_RATIO_EXCEEDED)
             <=> /\ cfg.archive_size > 0
                 /\ total_bytes + chunk > cfg.max_ratio * cfg.archive_size]_vars

\* C18: accounting a chunk fails with COMPRESSION_RATIO_EXCEEDED exactly
\* when neither size limit is exceeded by it, archive_size > 0 and the
\* grand total of the run over archive_size then exceeds max_ratio: the
\* check is skipped for archive_size = 0 and a ratio equal to max_ratio
\* passes.
C18_AggregateRatio ==
    [][pc = "account" =>
          AccountRaises(COMPRESSION_RATIO_EXCEEDED)
             <=> /\ member_bytes + chunk <= cfg.max_file_size
                 /\ total_bytes + chunk <= cfg.max_total_size
                 /\ cfg.archive_size > 0
                 /\ total_bytes + chunk > cfg.max_ratio * cfg.archive_size]_vars

\* The run passed a ratio equal to max_ratio and then failed on the ratio
\* in a later member whose own bytes are within it.
C18_Witness ==
    /\ pc = "failed"
    /\ err = COMPRESSION_RATIO_EXCEEDED
    /\ extracted_paths # {}
    /\ member_bytes <= cfg.max_ratio * cfg.archive_size
    /\ total_bytes > cfg.max_ratio * cfg.archive_size
    /\ total_bytes - chunk = cfg.max_ratio * cfg.archive_size

C20_EventBeforeError ==
    pc = "failed" /\ err \in SafetarErrors /\ cfg.on_security_event =>
        events # <<>>

\* ---------------------------------------------------------------- C21
\* This step ends the run with an error after the callback was invoked.
EventStep == pc # "failed" /\ pc' = "failed" /\ Len(events') > Len(events)
\* The error that leaves this step is a SafetarError: the Guard's, when the
\* Guard refused the member this step reached, and the monitor's, when
\* this step accounted a chunk over a limit.
OriginalError ==
    /\ err' \in SafetarErrors
    /\ MemberStep /\ Guard(cur', cfg).e # "" => err' = Guard(cur', cfg).e
    /\ pc = "account" =>
          err' = MonitorError(cfg, member_bytes + chunk, total_bytes + chunk)

EventTypes ==
    {"symlink_violation", "hardlink_violation", "directory_violation",
     "security_violation"}
\* The names, link targets and PAX paths of the archive, and as strings the
\* destination paths they name and the paths of the filesystem.
MemberStrings ==
    UNION {{m.name, m.linkname, m.pax_path} : m \in archive} \ {<<>>}
KnownPaths ==
    {Join(p) : p \in DOMAIN fs}
    \cup {Join(Base \o CleanParts(ReplaceBackslash(NFC(x)))) :
             x \in MemberStrings}

C23_Released ==
    pc \in {"closed", "openfailed"} =>
        /\ resources.held = <<>>
        /\ resources.released \in {<<>>, <<"tf">>, <<"tf", "fileobj">>}

\* ---------------------------------------------------------------- C29
\* C29: constructing a handle with a mode that starts with w, a or x fails
\* with ValueError, whatever the file argument is; the input is not
\* opened and the filesystem is left as it is.
C29_WriteModeRejected ==
    [][pc = "new" /\ WriteMode(cfg.mode) =>
          /\ pc' = "openfailed"
          /\ err' = VALUEERROR
          /\ fs' = fs
          /\ resources' = Resources(<<>>, <<>>)]_vars

\* Construction with a create mode on a path that names nothing has failed
\* with ValueError.
C29_Witness ==
    /\ pc = "openfailed"
    /\ err = VALUEERROR
    /\ cfg.mode = <<"x", ":", "g", "z">>
    /\ cfg.file = "missing"
    /\ resources = Resources(<<>>, <<>>)
    /\ fs = OldFile

\* ---------------------------------------------------------------- C24
\* Every path of ExtractedSet exists and was produced by this run.
C24_Original ==
    \A p \in extracted_paths : p \in DOMAIN fs /\ fs[p].via # "pre"

\* C24: within a run ExtractedSet only grows; a path enters it only once
\* its object is committed (a regular file after the rename of its fully
\* written temporary file, a directory after mkdir, a hardlink after
\* link); every path in it exists under the base directory, and its files
\* and hardlinks were produced by this run, while a directory member may
\* name a directory that was there before the run.
C24_ExtractedCommitted ==
    [][/\ pc # "idle" => extracted_paths \subseteq extracted_paths'
       /\ \A p \in extracted_paths' :
            /\ p \in DOMAIN fs'
            /\ IsInside(p, Base)
            /\ fs'[p].kind \in {"dir", "file"}
            /\ fs'[p].kind = "file" => fs'[p].via \in {"member", "link"}
       /\ \A p \in extracted_paths' \ extracted_paths :
            /\ fs'[p].kind = IF isdir(cur') THEN "dir" ELSE "file"
            /\ fs'[p].bytes = fs'[p].size
            /\ TempPath(p) \notin DOMAIN fs']_vars

\* The run is over; ExtractedSet holds the directory d that was there
\* before the run and the file d/a the run wrote into it.
C24_Witness ==
    /\ pc = "done"
    /\ extracted_paths = {Append(Base, <<"d">>), Base \o << <<"d">>, <<"a">> >>}
    /\ extracted_paths \subseteq DOMAIN fs
    /\ fs[Append(Base, <<"d">>)].via = "pre"
    /\ fs[Base \o << <<"d">>, <<"a">> >>].via = "member"

\* ---------------------------------------------------------------- C25
\* A directory whose archive metadata has been applied.
MetaApplied(f) == {p \in DOMAIN f : f[p].kind = "dir" /\ f[p].meta}

\* C25: within a run, the metadata of a directory member is applied only
\* when the member loop and the deferred-symlink loop are over, and once
\* the metadata of some directory has been applied no file, hardlink,
\* directory or symlink is created or written any more.
C25_DirMetaLast ==
    [][/\ MetaApplied(fs') # MetaApplied(fs) =>
            pc = "dirmeta" /\ deferred_symlinks = <<>>
       /\ MetaApplied(fs) # {} =>
            /\ DOMAIN fs' = DOMAIN fs
            /\ Written(fs, fs') = {}
            /\ deferred_symlinks' = <<>>]_vars

\* The run is over: the directory d carries its archive metadata, and the
\* file d/a was written into it after mkdir.
C25_Witness ==
    /\ pc = "done"
    /\ Append(Base, <<"d">>) \in MetaApplied(fs)
    /\ Append(Base, <<"d">>) \in extracted_paths
    /\ Base \o << <<"d">>, <<"a">> >> \in extracted_paths
    /\ fs[Append(Base, <<"d">>)].via = "member"

\* ---------------------------------------------------------------- C26
\* The destination held nothing before the run: whatever the run finds
\* under the base directory, the archive's members put there.
FreshDestination ==
    \A p \in DOMAIN fs : fs[p].via = "pre" => p \in {Root, Base}

\* C26: whenever extracting a member into a destination that was empty
\* before the run fails in the Guard, the Sandbox, at the creation of a
\* directory, hardlink or symlink or at the rename of a file, the error is
\* one of the SafetarError kinds.
C26_OnlySafetarErrors ==
    [][FreshDestination /\ pc \in {"loop", "commit", "symlinks"}
       /\ pc' = "failed" => err' \in SafetarErrors]_vars

\* ---------------------------------------------------------------- C27
\* m carries a PAX path that differs from its name and has a ".."
\* segment, is absolute, holds a NUL or is longer than MAX_PATH.
UnsafeOverride(m) ==
    /\ m # NoMember
    /\ m.has_pax_path
    /\ m.pax_path # m.name
    /\ LET o == [m EXCEPT !.name = m.pax_path] IN
       \/ DotDotNamed(o)
       \/ AbsoluteNamed(o)
       \/ \E i \in 1..Len(m.pax_path) : m.pax_path[i] = NUL
       \/ StrLen(m.pax_path) > MAX_PATH

RegularWritten == {i \in 1..Len(written) : written[i].regular}

\* p is a file that holds size bytes, all of them written.
Holds(p, size) ==
    /\ p \in DOMAIN fs
    /\ fs[p].kind = "file"
    /\ fs[p].size = size
    /\ fs[p].bytes = size

\* C28 as stated: once extractall has succeeded, the destination of every
\* regular-file member holds the bytes archived for that member.
C28_Original ==
    pc = "done" =>
        \A i \in RegularWritten : Holds(written[i].path, written[i].size)

\* C28: once extractall has succeeded, every destination of a regular-file
\* member lies under the base directory and holds the bytes archived for
\* that member, unless a later member was extracted to the same
\* destination.
C28_RoundTrip ==
    pc = "done" =>
        \A i \in RegularWritten :
            /\ IsInside(written[i].path, Base)
            /\ \/ Holds(written[i].path, written[i].size)
               \/ \E j \in (i + 1)..Len(written) :
                    written[j].path = written[i].path

\* The run has succeeded after a directory d and a file d/a of two bytes,
\* written in two chunks.
C28_Witness ==
    /\ pc = "done"
    /\ written = <<Written1(Member(<<"d", "/", "a">>, REGTYPE, <<>>, MaxSize,
                                   FALSE, FALSE),
                            Base \o << <<"d">>, <<"a">> >>)>>
    /\ Holds(written[1].path, MaxSize)
    /\ Append(Base, <<"d">>) \in extracted_paths

\* ---------------------------------------------------------------- C30
\* C30 as stated: every step of extract(member, B) is a step of
\* extractall(B, members=[member]).
C30_Original ==
    [][\A member \in Selectors :
          Extract(member) => extractall(Members(<<member>>))]_vars

\* C30: extract(member, B), for a TarInfo or for the name of a member the
\* archive holds, is extractall(B, members=[member]): the run it starts
\* iterates over that member alone, through the same _extract_one.  For a
\* name the archive does not hold extract fails with KeyError and leaves
\* the filesystem as it is.
C30_ExtractIsSingleton ==
    [][/\ \A member \in Selectors :
            Extract(member) =>
                IF getmember(member).e # ""
                THEN pc' = "failed" /\ err' = KEYERROR /\ fs' = fs
                ELSE /\ extractall(Members(<<member>>))
                     /\ pc' = "loop" => infos' = Infos(FALSE, <<member.info>>)
       /\ ~infos.all /\ MemberStep =>
            /\ infos.list # <<>>
            /\ cur' = Head(infos.list)
            /\ infos' = Infos(FALSE, <<>>)
       /\ ~infos.all /\ pc = "loop" /\ pc' = "symlinks" =>
            infos.list = <<>>]_vars

\* extract("d", B) has made the base directory and the directory d, and
\* nothing else.
C30_Witness ==
    /\ pc = "done"
    /\ infos = Infos(FALSE, <<>>)
    /\ cur = NoMember
    /\ extracted_paths = {Append(Base, <<"d">>)}
    /\ DOMAIN fs = {Root, Base, Append(Base, <<"d">>)}
    /\ written = <<>>

\* ---------------------------------------------------------------- C40
\* The member reached by this step is refused by the Guard, by the path
\* resolution or by the hardlink verification.
Rejected ==
    /\ MemberStep
    /\ \/ Guard(cur', cfg).e # ""
       \/ pc' = "failed" /\ err' \in SafetarErrors

\* C40: a member refused by the Guard or the Sandbox ends the run and
\* leaves no trace: the filesystem (files, temporary files, parent
\* directories, links), both monitor counters, ExtractedSet and both
\* deferred queues are as they were before the member was reached.
C40_RejectedLeavesNoTrace ==
    [][Rejected =>
        /\ pc' = "failed"
        /\ err' \in {UNSAFE_ENTRY, UNSAFE_ENTRY_TYPE}
        /\ Untouched
        /\ member_bytes' = member_bytes
        /\ total_bytes' = total_bytes
        /\ written' = written]_vars

\* After the file a, the hardlink d/h to b, which no member has written,
\* is refused; the directory d has not been made for it.
C40_Witness ==
    /\ pc = "failed" /\ err = UNSAFE_ENTRY
    /\ islnk(cur)
    /\ cur.name = <<"d", "/", "h">>
    /\ cur.linkname = <<"b">>
    /\ Append(Base, <<"d">>) \notin DOMAIN fs
    /\ extracted_paths = {Append(Base, <<"a">>)}
    /\ total_bytes = MaxSize

\* ---------------------------------------------------------------- C33
\* C33: a step that aborts extractall leaves everything on disk as it is,
\* but for the temporary file of the member being streamed, which it
\* removes; when the very first member of a run into an empty or missing
\* base directory is refused, the base directory exists and is empty.
C33_CommittedStay ==
    [][/\ pc # "failed" /\ pc' = "failed" =>
            /\ \A p \in DOMAIN fs \cap DOMAIN fs' : fs'[p] = fs[p]
            /\ \A p \in DOMAIN fs \ DOMAIN fs' :
                    Streaming /\ p = TempPath(dest)
            /\ Streaming => TempPath(dest) \notin DOMAIN fs'
       /\ Rejected /\ written = <<>> /\ DOMAIN fs = {Root, Base} =>
            /\ DOMAIN fs' = {Root, Base}
            /\ fs'[Base].kind = "dir"]_vars

\* The second member named a breaches the file size limit: its temporary
\* file is gone, and the file a of the first member is as it was written.
C33_Witness ==
    /\ pc = "failed" /\ err = FILE_SIZE_EXCEEDED
    /\ dest = Append(Base, <<"a">>)
    /\ TempPath(dest) \notin DOMAIN fs
    /\ written = <<Written1(Member(<<"a">>, REGTYPE, <<>>, 1, FALSE, FALSE), dest)>>
    /\ Holds(dest, 1)
    /\ fs[dest].via = "member"
    /\ cur.size = MaxSize

\* ---------------------------------------------------------------- C36
\* C36: accounting a chunk advances both counters by the chunk and then
\* raises by precedence: FILE_SIZE_EXCEEDED if the member's bytes exceed
\* max_file_size, else TOTAL_SIZE_EXCEEDED if the grand total exceeds
\* max_total_size, else COMPRESSION_RATIO_EXCEEDED if the ratio is
\* exceeded; within a run the grand total never decreases.
C36_Precedence ==
    [][/\ pc = "account" =>
            LET m == member_bytes + chunk
                t == total_bytes + chunk
            IN
            /\ member_bytes' = m
            /\ total_bytes' = t
            /\ IF m > cfg.max_file_size
               THEN AccountRaises(FILE_SIZE_EXCEEDED)
               ELSE IF t > cfg.max_total_size
               THEN AccountRaises(TOTAL_SIZE_EXCEEDED)
               ELSE IF cfg.archive_size > 0
                       /\ t > cfg.max_ratio * cfg.archive_size
               THEN AccountRaises(COMPRESSION_RATIO_EXCEEDED)
               ELSE pc' = "copy" /\ err' = ""
       /\ pc # "idle" => total_bytes' >= total_bytes]_vars

\* One chunk has breached all three limits at once: the run failed with
\* FILE_SIZE_EXCEEDED, both counters advanced.
C36_Witness ==
    /\ pc = "failed" /\ err = FILE_SIZE_EXCEEDED
    /\ member_bytes > cfg.max_file_size
    /\ total_bytes > cfg.max_total_size
    /\ cfg.archive_size > 0
    /\ total_bytes > cfg.max_ratio * cfg.archive_size
    /\ total_bytes > member_bytes
    /\ member_bytes - chunk <= cfg.max_file_size
    /\ total_bytes - chunk <= cfg.max_total_size

\* ---------------------------------------------------------------- C37
\* The destinations the Streamer has committed a file to in this run.
CommittedPaths == {written[i].path : i \in 1..Len(written)}

\* The bytes held by the files at the paths of S, taken together.
RECURSIVE SumBytes(_)
SumBytes(S) ==
    IF S = {} THEN 0
    ELSE LET p == CHOOSE q \in S : TRUE
         IN (IF p \in DOMAIN fs THEN fs[p].bytes ELSE 0) + SumBytes(S \ {p})

\* C37: at every point of a run each file committed to its destination
\* holds at most max_file_size bytes and the committed files together hold
\* at most max_total_size bytes; the temporary file being written holds at
\* most one chunk more than max_file_size allows, and with the committed
\* files at most one chunk more than max_total_size allows.
C37_CommittedWithinLimits ==
    /\ \A p \in CommittedPaths :
          /\ p \in DOMAIN fs
          /\ fs[p].kind = "file"
          /\ fs[p].bytes <= cfg.max_file_size
    /\ SumBytes(CommittedPaths) <= cfg.max_total_size
    /\ SumBytes(CommittedPaths) <= total_bytes
    /\ pc \in {"copy", "account"} =>
          /\ TempFile.bytes <= cfg.max_file_size + ChunkBytes
          /\ total_bytes - member_bytes + TempFile.bytes
                <= cfg.max_total_size + ChunkBytes

\* A chunk that takes the temporary file over max_file_size and the run
\* over max_total_size has been written and is yet to be accounted, after
\* a first member was committed.
C37_Witness ==
    /\ pc = "account"
    /\ TempFile.bytes > cfg.max_file_size
    /\ total_bytes - member_bytes + TempFile.bytes > cfg.max_total_size
    /\ CommittedPaths # {}
    /\ SumBytes(CommittedPaths) = total_bytes - member_bytes
    /\ SumBytes(CommittedPaths) > 0

\* ---------------------------------------------------------------- C35
\* C35: a symlink member under RESOLVE_INTERNAL is queued with the
\* destination path computed for it then and with its raw link target;
\* when it is realised, the one symlink made is the one that queued path
\* names, and it holds the raw link target, unchanged.
C35_RawTargetAtQueuedPath ==
    [][/\ MemberStep /\ disp' = "defer_symlink" /\ pc' = "loop" =>
            deferred_symlinks' =
                Append(deferred_symlinks,
                       <<Base \o CleanParts(ReplaceBackslash(NFC(cur'.name))),
                         cur'.linkname>>)
       /\ pc = "symlinks" /\ deferred_symlinks # <<>> /\ pc' = "symlinks" =>
            LET made == Entry(fs', NextSymlink[1]) IN
            /\ made.e = ""
            /\ made.p \in DOMAIN fs' \ DOMAIN fs
            /\ fs'[made.p] = SymNode("symlink", NextSymlink[2])
            /\ \A p \in (DOMAIN fs' \ DOMAIN fs) \ {made.p} :
                    fs'[p].kind = "dir"
            /\ deferred_symlinks' = Tail(deferred_symlinks)]_vars

\* The run is over; the symlink l holds the raw target "m/..", which was
\* checked as the base directory it resolved to.
C35_Witness ==
    /\ pc = "done"
    /\ Append(Base, <<"l">>) \in DOMAIN fs
    /\ fs[Append(Base, <<"l">>)] = SymNode("symlink", <<"m", "/", ".", ".">>)
    /\ Append(Base, <<"m">>) \notin DOMAIN fs

\* ---------------------------------------------------------------- C34
\* C34: a member with the reader's sparse attribute, the type code S or a
\* PAX sparse marker is, under sparse_policy REJECT, refused with
\* UNSAFE_ENTRY_TYPE before anything is written, whatever its type code;
\* under MATERIALISE, if its name passes the checks, it is handed to the
\* Streamer as a regular file, where its bytes are counted.
C34_SparseFirst ==
    [][MemberStep /\ IsSparse(cur') =>
          IF cfg.sparse_policy = "reject"
          THEN pc' = "failed" /\ err' = UNSAFE_ENTRY_TYPE /\ Untouched
          ELSE \/ pc' = "failed" /\ err' = UNSAFE_ENTRY /\ Untouched
               \/ pc' = "stream" /\ disp' = "extract" /\ Untouched]_vars

\* ------------------------------------------------------------------ modes
\* stat's permission bits, 0o7777, and a regular-file type bit above them.
ALLPERMS == 2^12 - 1
S_IFREG == 2^15
\* Every permission mode, and modes that carry the file type as well.
MemberModes ==
    (0 .. ALLPERMS)
    \cup {S_IFREG + mode : mode \in {4 * 512 + 493, 7 * 512 + 511, 420}}
\* One regular file of every mode, and directories with special bits.
ModeCatalogue ==
    {[Member(<<"a">>, REGTYPE, <<>>, 1, FALSE, FALSE) EXCEPT !.mode = mode] :
        mode \in MemberModes}
    \cup
    {[Member(<<"d">>, DIRTYPE, <<>>, 0, FALSE, FALSE) EXCEPT !.mode = mode] :
        mode \in {2 * 512 + 493, 1 * 512 + 511}}
\* Every setting of strip_special_bits, strip_write_bits and
\* preserve_ownership, under the most permissive policies.
ModeConfigs ==
    {[Permissive EXCEPT !.strip_special_bits = s, !.strip_write_bits = w,
                        !.preserve_ownership = o] :
        s \in BOOLEAN, w \in BOOLEAN, o \in BOOLEAN}

\* An archive of one member, extracted into a base that does not exist.
InitMode ==
    /\ cfg \in ModeConfigs
    /\ fs = NoBase
    /\ \E m \in ModeCatalogue : archive = {m}
    /\ budget = Cardinality(archive)
    /\ Idle
    /\ Alone

SpecMode == InitMode /\ [][Next]_vars

\* Bit i of x.
Bit(x, i) == (x \div 2^i) % 2
\* out is mode with the special bits (0o7000) cleared if special, the
\* write bits (0o222) cleared if write, and every other bit as it was.
Stripped(mode, special, write, out, bits) ==
    \A i \in bits :
        Bit(out, i) = IF \/ special /\ i \in {9, 10, 11}
                         \/ write /\ i \in {1, 4, 7}
                      THEN 0 ELSE Bit(mode, i)

\* C32: sanitise_mode clears exactly the special bits when
\* strip_special_bits is set and exactly the write bits when
\* strip_write_bits is set, and leaves every other bit as it was; the
\* regular file a member is committed as holds the sanitised permission
\* bits of the member whatever os.chown did before (with the defaults: no
\* special bit, the member's execute bits), and no later step changes the
\* mode of a file.
C32_ModeSanitised ==
    [][/\ pc = "commit" /\ pc' = "loop" =>
              LET n == fs'[Lookup(fs', dest).p] IN
              /\ Stripped(cur.mode, cfg.strip_special_bits,
                          cfg.strip_write_bits,
                          sanitise_mode(cur.mode, cfg.strip_special_bits,
                                        cfg.strip_write_bits), 0..16)
              /\ n.kind = "file"
              /\ Stripped(cur.mode, cfg.strip_special_bits,
                          cfg.strip_write_bits, n.mode, 0..11)
              /\ n.mode <= ALLPERMS
              /\ cfg.strip_special_bits /\ ~cfg.strip_write_bits =>
                     /\ \A i \in {9, 10, 11} : Bit(n.mode, i) = 0
                     /\ \A i \in {0, 3, 6} : Bit(n.mode, i) = Bit(cur.mode, i)
       /\ pc \notin {"idle", "commit"} =>
              \A p \in DOMAIN fs \cap DOMAIN fs' :
                  fs[p].kind = "file" /\ fs'[p].kind = "file" =>
                      fs'[p].mode = fs[p].mode]_vars
\* The run is over under the defaults: a member of mode 0o4755 is a file
\* of mode 0o755.
C32_Witness ==
    /\ pc = "done"
    /\ cfg.strip_special_bits /\ ~cfg.strip_write_bits
    /\ ~cfg.preserve_ownership
    /\ \E m \in archive : m.type = REGTYPE /\ m.mode = 4 * 512 + 493
    /\ Append(Base, <<"a">>) \in DOMAIN fs
    /\ fs[Append(Base, <<"a">>)].kind = "file"
    /\ fs[Append(Base, <<"a">>)].mode = 493

\* ------------------------------------------------------- calls on a handle
\* Members the calls on one handle process at most, all calls together.
MaxCallMembers == 3
\* A regular file of the largest size, a hardlink and a symlink to it, a
\* directory and a member with an unsafe name.
CallCatalogue ==
    {Member(<<"a">>, REGTYPE, <<>>, MaxSize, FALSE, FALSE),
     Member(<<"h">>, LNKTYPE, <<"a">>, 0, FALSE, FALSE),
     Member(<<"l">>, SYMTYPE, <<"a">>, 0, FALSE, FALSE),
     Member(<<"d">>, DIRTYPE, <<>>, 0, FALSE, FALSE),
     Member(<<".", ".", "/", "e">>, REGTYPE, <<>>, 0, FALSE, FALSE)}
\* Limits that one file reaches and two files exceed, by max_total_size
\* or by max_ratio.
CallConfigs ==
    {Config("resolve_internal", "internal", "materialise",
            MaxSize, mt, 1, as) :
        mt \in {MaxSize, 2 * MaxSize}, as \in {0, MaxSize}}
\* The members argument of a call: one or two TarInfo objects.
CallLists ==
    {list \in UNION {[1..n -> {Selector(info, FALSE, TRUE) :
                                  info \in archive}] : n \in 1..2} :
        Len(list) <= budget}

InitCalls ==
    /\ cfg \in CallConfigs
    /\ fs = NoBase
    /\ archive = CallCatalogue
    /\ budget = MaxCallMembers
    /\ Idle
    /\ Alone

\* extractall returns, or its error reaches the caller: the handle is
\* ready for the next call.
Return ==
    /\ pc \in {"done", "failed"}
    /\ pc' = "idle"
    /\ cur' = NoMember
    /\ disp' = ""
    /\ dest' = <<>>
    /\ remaining' = 0
    /\ chunk' = 0
    /\ UNCHANGED <<fs, cfg, archive, other, infos, written, count, resources,
                   events, budget, member_bytes, total_bytes,
                   deferred_symlinks, deferred_dirs, extracted_paths, err>>

NextCalls ==
    \/ \E list \in CallLists : extractall(Members(list))
    \/ \E info \in archive : budget > 0 /\ Extract(Selector(info, FALSE, TRUE))
    \/ Return
    \/ \E m \in archive, loopRaises \in BOOLEAN, cb \in Callbacks :
            ExtractOne(m, loopRaises, cb)
    \/ \E linkFound \in BOOLEAN, linkSize \in 0..MaxSize, cb \in Callbacks :
            StreamOpen(linkFound, linkSize, cb)
    \/ CopyChunk
    \/ \E kind \in {MALFORMED_ARCHIVE, OSERROR}, cb \in Callbacks :
            CopyFails(kind, cb)
    \/ \E cb \in Callbacks : Account(cb)
    \/ \E cb \in Callbacks : Commit(cb)
    \/ EndOfMembers
    \/ \E loopRaises \in BOOLEAN : SymlinkStep(loopRaises)
    \/ DirMetaStep

SpecCalls == InitCalls /\ [][NextCalls]_vars

\* The file that an earlier call extracted as member a is on disk.
EarlierCallFile ==
    /\ Append(Base, <<"a">>) \in DOMAIN fs
    /\ fs[Append(Base, <<"a">>)].kind = "file"
    /\ fs[Append(Base, <<"a">>)].via = "member"
    /\ Append(Base, <<"a">>) \notin extracted_paths

\* C38: every call starts with the counters at zero, ExtractedSet and
\* both queues empty, whatever the calls before it left; a hardlink whose
\* target this call has not committed is rejected even when the target is
\* on disk from an earlier call; as long as a call has committed no file, its
\* total is the bytes of the member being written, and the total limit
\* strikes only when the bytes of this call exceed it.
C38_FreshPerCall ==
    [][/\ pc = "idle" /\ pc' = "loop" =>
              /\ member_bytes' = 0 /\ total_bytes' = 0
              /\ extracted_paths' = {}
              /\ deferred_symlinks' = <<>> /\ deferred_dirs' = <<>>
       /\ MemberStep /\ islnk(cur')
          /\ Append(Base, cur'.linkname) \notin CommittedPaths =>
              /\ pc' = "failed" /\ err' = UNSAFE_ENTRY
              /\ fs' = fs
       /\ pc = "account" =>
              /\ written = <<>> => total_bytes' = member_bytes'
              /\ total_bytes' <= SumBytes(CommittedPaths) + member_bytes'
              /\ (pc' = "failed" /\ member_bytes' <= cfg.max_file_size) =>
                     \/ total_bytes' > cfg.max_total_size
                     \/ /\ cfg.archive_size > 0
                        /\ total_bytes' > cfg.max_ratio * cfg.archive_size]_vars
\* A call has rejected the hardlink of a file that an earlier call
\* extracted and that is on disk.
C38_Witness ==
    /\ pc = "failed" /\ err = UNSAFE_ENTRY
    /\ islnk(cur) /\ cur.linkname = <<"a">>
    /\ EarlierCallFile
    /\ extracted_paths = {}
\* Two calls have each extracted the largest file under a total limit that
\* the two files together exceed.
C38_TwoCalls ==
    /\ pc = "done" /\ err = ""
    /\ budget = MaxCallMembers - 2
    /\ cfg.max_total_size = MaxSize
    /\ total_bytes = MaxSize
    /\ fs[Append(Base, <<"a">>)].bytes = MaxSize

\* ------------------------------------------------------ kinds of input
\* A path, a stream that cannot seek, and a stream that can, handed over
\* at its start or behind an archive of 0 .. MaxMembers + 1 members.
InputConfigs ==
    {[Permissive EXCEPT !.max_files = n, !.file = file,
                        !.input = Input(0, 0, 1)] :
        n \in {MaxMembers - 1, MaxMembers},
        file \in {"path", "stream", "seekable"}}
    \cup {[Permissive EXCEPT !.max_files = n, !.file = "seekable",
                             !.input = Input(k, 1, 1)] :
             n \in {MaxMembers - 1, MaxMembers}, k \in 0..(MaxMembers + 1)}

InitInput ==
    /\ cfg \in InputConfigs
    /\ fs = NoBase
    /\ archive = OpenCatalogue
    /\ budget \in 0..(MaxMembers + 1)
    /\ pc = "new"
    /\ cur = NoMember
    /\ disp = ""
    /\ dest = <<>>
    /\ remaining = 0
    /\ chunk = 0
    /\ member_bytes = 0
    /\ total_bytes = 0
    /\ deferred_symlinks = <<>>
    /\ deferred_dirs = <<>>
    /\ extracted_paths = {}
    /\ err = ""
    /\ count = 0
    /\ events = <<>>
    /\ resources = Resources(<<>>, <<>>)
    /\ written = <<>>
    /\ infos = Every
    /\ Alone

SpecInput == InitInput /\ [][NextOpen]_vars

\* The constructor has just succeeded.
Constructed == pc = "prescan" /\ pc' = "idle"

\* C39: when construction succeeds, the reader opened for extraction
\* yields the members that the pre-scan counted, at most max_files, and
\* the archive hash and the archive size are those of the bytes that this
\* reader reads.
C39_SameRange ==
    [][Constructed =>
          /\ budget' = count
          /\ budget' <= cfg'.max_files
          /\ cfg'.archive_hash =
                 compute_archive_hash(hexdigest(sha256(cfg'.input, 0)))
          /\ cfg'.archive_size = cfg'.input.size]_vars

\* ---------------------------------------------------- two handles at once
\* The base directory of the second handle, "/p".
OtherBase == << <<"p">> >>
\* The handle that runs sees its own base directory as Base and that of
\* the handle that waits as OtherBase: when the two change places, so do
\* the two names, in every path and in every symlink target.
SwapName(s) ==
    [i \in 1..Len(s) |->
        IF s[i] = "o" THEN "p" ELSE IF s[i] = "p" THEN "o" ELSE s[i]]
SwapPath(p) == [i \in 1..Len(p) |-> SwapName(p[i])]
SwapFs(f) ==
    [q \in {SwapPath(p) : p \in DOMAIN f} |->
        [f[SwapPath(q)] EXCEPT !.target = SwapName(@)]]

\* The state of the handle that runs, as handle number id.
Self(id) ==
    [id |-> id, cfg |-> cfg, archive |-> archive, budget |-> budget,
     pc |-> pc, cur |-> cur, disp |-> disp, dest |-> dest,
     remaining |-> remaining, chunk |-> chunk,
     member_bytes |-> member_bytes, total_bytes |-> total_bytes,
     deferred_symlinks |-> deferred_symlinks,
     deferred_dirs |-> deferred_dirs, extracted_paths |-> extracted_paths,
     err |-> err, count |-> count, events |-> events,
     resources |-> resources, written |-> written, infos |-> infos]

\* The scheduler lets the other handle run.
Switch ==
    /\ other.pc # "none"
    /\ other' = Self(3 - other.id)
    /\ fs' = SwapFs(fs)
    /\ cfg' = other.cfg
    /\ archive' = other.archive
    /\ budget' = other.budget
    /\ pc' = other.pc
    /\ cur' = other.cur
    /\ disp' = other.disp
    /\ dest' = other.dest
    /\ remaining' = other.remaining
    /\ chunk' = other.chunk
    /\ member_bytes' = other.member_bytes
    /\ total_bytes' = other.total_bytes
    /\ deferred_symlinks' = other.deferred_symlinks
    /\ deferred_dirs' = other.deferred_dirs
    /\ extracted_paths' = other.extracted_paths
    /\ err' = other.err
    /\ count' = other.count
    /\ events' = other.events
    /\ resources' = other.resources
    /\ written' = other.written
    /\ infos' = other.infos

\* The archive of the first handle: a regular file, and symlinks that lead
\* through one another to the parent of the base directory and from there
\* into the base directory of the second handle.
PairCatalogue ==
    {Member(<<"a">>, REGTYPE, <<>>, 1, FALSE, FALSE),
     Member(<<"l">>, SYMTYPE, <<"m", "/", ".", ".">>, 0, FALSE, FALSE),
     Member(<<"m">>, SYMTYPE, <<".">>, 0, FALSE, FALSE),
     Member(<<"l", "/", "p", "/", "s">>, SYMTYPE, <<".", ".", "/", "o">>,
            0, FALSE, FALSE)}
\* The archive of the second handle: one regular file.
OneFile == {Member(<<"a">>, REGTYPE, <<>>, 1, FALSE, FALSE)}

\* Two handles are open on two archives; neither base directory exists.
InitPair ==
    /\ cfg = Permissive
    /\ fs = NoBase
    /\ archive = PairCatalogue
    /\ budget = MaxLinkMembers
    /\ Idle
    /\ other = [id |-> 2, cfg |-> Permissive, archive |-> OneFile,
                budget |-> Cardinality(OneFile),
                pc |-> "idle", cur |-> NoMember, disp |-> "", dest |-> <<>>,
                remaining |-> 0, chunk |-> 0, member_bytes |-> 0,
                total_bytes |-> 0, deferred_symlinks |-> <<>>,
                deferred_dirs |-> <<>>, extracted_paths |-> {}, err |-> "",
                count |-> 0, events |-> <<>>, resources |-> Opened,
                written |-> <<>>, infos |-> Every]

NextPair == Switch \/ Next

SpecPair == InitPair /\ [][NextPair]_vars

\* What f holds at and below b.
Under(f, b) ==
    [p \in {q \in DOMAIN f : Len(q) >= Len(b) /\ SubSeq(q, 1, Len(b)) = b}
        |-> f[p]]
\* The handle that runs took the step, and a second handle waits.
OwnStep == other.pc # "none" /\ other' = other
\* Both handles have ended and the second, which runs, has extracted its
\* file and succeeded.
BothEnded ==
    /\ other.pc \in {"done", "failed"}
    /\ other.id = 1
    /\ pc = "done"
    /\ written # <<>>

\* C31: no step of one handle changes anything at or below the base
\* directory of the other, and when both have ended the handle that
\* extracted one regular file has under its base what it has when run
\* alone: that file and nothing else.
C31_Independent ==
    [][/\ OwnStep => Under(fs', OtherBase) = Under(fs, OtherBase)
       /\ BothEnded =>
              /\ DOMAIN Under(fs, Base) = {Base, Append(Base, <<"a">>)}
              /\ fs[Append(Base, <<"a">>)].kind = "file"
              /\ fs[Append(Base, <<"a">>)].bytes = 1]_vars

====
